---- MODULE Spec2Model ----
(***************************************************************************)
(* Model of pemerintah-bot: a news monitor that scrapes three sources,     *)
(* filters article titles by keyword, sends the new matches to a Discord   *)
(* webhook and records them in an SQLite table keyed by url.               *)
(*                                                                         *)
(* Texts (titles, keywords) are sequences of one-character strings.        *)
(***************************************************************************)
EXTENDS Integers, Sequences, FiniteSets, TLC

VARIABLES
    \* DatabaseService and the articles table behind it
    rows,        \* the articles table: a set of rows [id, url, title, source, age]
    nextId,      \* next AUTOINCREMENT value of articles.id
    dbOpen,      \* DatabaseService.db is not null
    lastSave,    \* the last saveArticle call: its input and what it did
    prevSave,    \* the saveArticle call before it, when nothing came between
    \* SchedulerService
    jobs,        \* this.jobs: name -> [running, cb]
    active,      \* name -> number of callback invocations in progress
    orphans,     \* CronJobs that are running and not in this.jobs: [name, cb]
    timers,      \* names of the delayed tasks whose setTimeout has not fired
    \* the process and PemerintahBot.start()
    env,         \* what the outside world does: "any" or "steady"
    pc,          \* where main()/start() stands; "down" when no process runs
    exitCode,    \* exit code of the last process, "none" before the first exit
    isRunning,   \* PemerintahBot.isRunning
    maxArticlesPerCheck,  \* config.monitoring.maxArticlesPerCheck
    \* monitorNews
    mpc,         \* where the cycle stands: "idle", "scrape", "cap", "send", "save"
    owner,       \* who called monitorNews: "start" or "job"
    srcIdx,      \* index in Scrapers of the next source to visit
    allArticles,
    articlesToProcess,
    sentCount,   \* successCount of sendBulkArticles
    saveIdx,     \* number of saveArticle calls the cycle has made
    \* what has happened so far
    visited,        \* sources whose scrapeNews the cycle has called
    failedSources,  \* sources that failed in the cycle
    lastScrape,     \* the last scrapeNews call: its inputs and its result
    acceptedOnce,   \* urls of the notifications the webhook has accepted
    acceptedTwice,  \* urls it has accepted more than once
    cleanupRan,     \* cleanup() has run
    cbThrew,        \* a callback of a job has thrown or rejected
    probe,          \* the last call of a function under study: input and result
    saveFailed      \* a saveArticle call of a cycle returned 0 or threw

dbVars == <<rows, nextId, dbOpen, lastSave, prevSave>>

schedVars == <<jobs, active, orphans, timers>>

botVars == <<env, pc, exitCode, isRunning, maxArticlesPerCheck>>

cycleVars == <<mpc, owner, srcIdx, allArticles, articlesToProcess, sentCount, saveIdx>>

histVars == <<visited, failedSources, lastScrape, acceptedOnce, acceptedTwice,
              cleanupRan, cbThrew, probe, saveFailed>>

vars == <<dbVars, schedVars, botVars, cycleVars, histVars>>

----------------------------------------------------------------------------
(* Bounds of the model *)

\* longest run of storage faults one saveArticle call is given
MaxFaults == 2

\* rows age in steps of TickDays days, up to MaxAge days
TickDays == 20
MaxAge == 40

\* ids handed out by the table in one run of the model
MaxId == 2

----------------------------------------------------------------------------
(* Texts *)

\* characters matched by /[\x00-\x1F\x7F]/
ControlChars == {"\t", "\n", "^A"}

\* characters String.prototype.trim removes
TrimChars == {" ", "\t", "\n"}

NotControl(c) == c \notin ControlChars

RECURSIVE TrimStart(_)
TrimStart(t) ==
    IF t = <<>> THEN t
    ELSE IF Head(t) \in TrimChars THEN TrimStart(Tail(t)) ELSE t

RECURSIVE TrimEnd(_)
TrimEnd(t) ==
    IF t = <<>> THEN t
    ELSE IF t[Len(t)] \in TrimChars THEN TrimEnd(SubSeq(t, 1, Len(t) - 1)) ELSE t

Trim(t) == TrimEnd(TrimStart(t))

NotNewline(c) == c \notin {"\n"}

RECURSIVE TrimStartSpaces(_)
TrimStartSpaces(t) ==
    IF t = <<>> THEN t
    ELSE IF Head(t) \in {" ", "\t", "\n"} THEN TrimStartSpaces(Tail(t)) ELSE t

\* the title stored as it was given
KeepTitle(t) == t

\* article.title.replace(/[\x00-\x1F\x7F]/g, "").trim()
SanitizeTitle(t) == Trim(SelectSeq(t, NotControl))

\* characters \s matches
SpaceChars == {" ", "\t", "\n"}

\* .replace(/\s+/g, " "): every run of whitespace becomes one space
RECURSIVE CollapseSpaces(_)
CollapseSpaces(t) ==
    IF t = <<>> THEN t
    ELSE IF Head(t) \in SpaceChars
         THEN <<" ">> \o CollapseSpaces(TrimStartSpaces(Tail(t)))
         ELSE <<Head(t)>> \o CollapseSpaces(Tail(t))

\* .replace(/^\||\|$/g, ""), .replace(/^-|-$/g, ""): one leading and one
\* trailing occurrence of the character are removed
StripEnds(t, c) ==
    LET a == IF t # <<>> /\ Head(t) = c THEN Tail(t) ELSE t
    IN  IF a # <<>> /\ a[Len(a)] = c THEN SubSeq(a, 1, Len(a) - 1) ELSE a

\* BaseScraper.cleanTitle
cleanTitle(t) ==
    Trim(StripEnds(StripEnds(SelectSeq(CollapseSpaces(Trim(t)), NotNewline), "|"), "-"))

----------------------------------------------------------------------------
(* Keyword matching *)

UpperToLower == [c \in {"A", "B"} |-> IF c = "A" THEN "a" ELSE "b"]

\* String.prototype.toLowerCase
ToLower(t) == [i \in 1..Len(t) |-> IF t[i] \in DOMAIN UpperToLower THEN UpperToLower[t[i]] ELSE t[i]]

\* the characters \w matches, among those the model uses
WordChars == {"a", "b", "c", "e", "n", "s", "w", "x", "A", "B", "_", "1"}

\* \b at position p of t (between t[p-1] and t[p]): exactly one side is a word
\* character; beyond the ends of the text there is none
IsWordAt(t, p) == p >= 1 /\ p <= Len(t) /\ t[p] \in WordChars

WordBoundary(t, p) == IsWordAt(t, p - 1) # IsWordAt(t, p)

\* new RegExp(`\\b${escapeRegExp(keyword)}\\b`, "i").test(text): the escaped
\* keyword matches itself, letter case ignored
isWholeWordMatch(text, keyword) ==
    \E p \in 1..(Len(text) + 1) :
        /\ p + Len(keyword) - 1 <= Len(text)
        /\ ToLower(SubSeq(text, p, p + Len(keyword) - 1)) = ToLower(keyword)
        /\ WordBoundary(text, p)
        /\ WordBoundary(text, p + Len(keyword))

IsMatch(text, keyword) == isWholeWordMatch(ToLower(text), ToLower(keyword))

\* a findMatchingKeywords that pushes the keyword as it was compared
findMatchingKeywordsLowered(text, keywords) ==
    IF text = <<>> \/ keywords = <<>> THEN <<>>
    ELSE LET Matches(k) == IsMatch(text, k)
         IN  SelectSeq([i \in 1..Len(keywords) |-> ToLower(keywords[i])], Matches)

findMatchingKeywords(text, keywords) ==
    IF text = <<>> \/ keywords = <<>> THEN <<>>
    ELSE LET Matches(k) == IsMatch(text, k)
         IN  SelectSeq(keywords, Matches)

\* the variant of validateKeywords that takes single words only: a keyword
\* with a space in it is an error as well
RECURSIVE validateKeywordsSingleWord(_)
validateKeywordsSingleWord(keywords) ==
    IF keywords = <<>> THEN <<>>
    ELSE LET trimmed == Trim(Head(keywords))
             rest == validateKeywordsSingleWord(Tail(keywords))
         IN  IF trimmed = <<>>
             THEN <<[error |-> "Empty keyword detected", keyword |-> <<>>]>> \o rest
             ELSE (IF Len(trimmed) < 2
                   THEN <<[error |-> "is too short (minimum 2 characters)", keyword |-> trimmed]>>
                   ELSE <<>>)
                  \o (IF \E i \in 1..Len(trimmed) : trimmed[i] = " "
                      THEN <<[error |-> "contains spaces (use single words only)", keyword |-> trimmed]>>
                      ELSE <<>>)
                  \o rest

\* validateKeywords: the errors, in the order of the keywords; a keyword with
\* a character special to regular expressions is logged as a warning and
\* adds no error
RECURSIVE validateKeywords(_)
validateKeywords(keywords) ==
    IF keywords = <<>> THEN <<>>
    ELSE LET trimmed == Trim(Head(keywords))
             rest == validateKeywords(Tail(keywords))
         IN  IF trimmed = <<>>
             THEN <<[error |-> "Empty keyword detected", keyword |-> <<>>]>> \o rest
             ELSE (IF Len(trimmed) < 2
                   THEN <<[error |-> "is too short (minimum 2 characters)", keyword |-> trimmed]>>
                   ELSE <<>>)
                  \o rest

----------------------------------------------------------------------------
(* Source adapters.  A feed item is [title, link, age], age in hours since  *)
(* its pubDate; an element of a listing page is [title, href, age].  A stub *)
(* is [title, url, age, source].                                            *)

CNN == "CNN Indonesia"
Detik == "Detik.com"
BBC == "BBC Indonesia"

\* KompasScraper: an adapter of the repository that PemerintahBot does not
\* put in this.scrapers
Kompas == "Kompas.com"

\* this.scrapers of PemerintahBot, in the order they are visited
Scrapers == <<CNN, Detik, BBC>>

AllSources == {Scrapers[i] : i \in DOMAIN Scrapers}

RssItemLimit == 20
DetikRssItemLimit == 15
KompasRssItemLimit == 15
KompasHtmlResultLimit == 20
RssResultLimit == 20
HtmlResultLimit == 15
MinTitleLength == 10
CnnMaxAgeHours == 24
MaxAgeHours == 48

Take(list, n) == SubSeq(list, 1, IF Len(list) < n THEN Len(list) ELSE n)

UrlsOf(list) == {list[i].url : i \in 1..Len(list)}

Stub(item, src) ==
    [title |-> cleanTitle(item.title), url |-> item.link, age |-> item.age, source |-> src]

\* the item loop of CNNIndonesiaScraper / BBCIndonesiaScraper.scrapeViaRSS:
\* items without title or link and items older than maxAge hours are skipped
RECURSIVE RssItems(_, _, _)
RssItems(items, src, maxAge) ==
    IF items = <<>> THEN <<>>
    ELSE LET item == Head(items)
             rest == RssItems(Tail(items), src, maxAge)
         IN  IF item.title = <<>> \/ item.link = "" THEN rest
             ELSE IF item.age > maxAge THEN rest
             ELSE <<Stub(item, src)>> \o rest

\* the item loop of DetikScraper.scrapeViaRSS: as above, and an item whose
\* link is already among the articles is skipped
RECURSIVE DetikRssItems(_, _)
DetikRssItems(items, articles) ==
    IF items = <<>> THEN articles
    ELSE LET item == Head(items)
         IN  IF item.title = <<>> \/ item.link = "" THEN DetikRssItems(Tail(items), articles)
             ELSE IF item.age > MaxAgeHours THEN DetikRssItems(Tail(items), articles)
             ELSE IF item.link \in UrlsOf(articles) THEN DetikRssItems(Tail(items), articles)
             ELSE DetikRssItems(Tail(items), Append(articles, Stub(item, Detik)))

\* the loop over RSS_URLS of DetikScraper.scrapeViaRSS: a feed that fails
\* to parse or has no items is passed over
RECURSIVE DetikFeeds(_, _)
DetikFeeds(feeds, articles) ==
    IF feeds = <<>> THEN articles
    ELSE LET feed == Head(feeds)
         IN  IF feed.threw \/ feed.items = <<>>
             THEN DetikFeeds(Tail(feeds), articles)
             ELSE DetikFeeds(Tail(feeds),
                             DetikRssItems(Take(feed.items, DetikRssItemLimit), articles))

\* articles.filter((a, i, self) => i === self.findIndex(x => x.url === a.url))
RECURSIVE UniqueByUrl(_)
UniqueByUrl(list) ==
    IF list = <<>> THEN <<>>
    ELSE LET front == UniqueByUrl(SubSeq(list, 1, Len(list) - 1))
             last == list[Len(list)]
         IN  IF last.url \in UrlsOf(front) THEN front ELSE Append(front, last)

\* insertion of x into a list sorted newest first, after the entries of its age
RECURSIVE InsertByAge(_, _)
InsertByAge(sorted, x) ==
    IF sorted = <<>> THEN <<x>>
    ELSE IF Head(sorted).age <= x.age
         THEN <<Head(sorted)>> \o InsertByAge(Tail(sorted), x)
         ELSE <<x>> \o sorted

\* .sort((a, b) => b.publishedAt.getTime() - a.publishedAt.getTime()): stable
RECURSIVE SortNewestFirst(_)
SortNewestFirst(list) ==
    IF list = <<>> THEN <<>>
    ELSE InsertByAge(SortNewestFirst(SubSeq(list, 1, Len(list) - 1)), list[Len(list)])

\* scrapeViaRSS of the three adapters; feeds holds the outcome of parseURL
\* for each feed url of the adapter, [threw, items]
\* the item loop of KompasScraper.scrapeViaRSS, the same as Detik's
RECURSIVE KompasRssItems(_, _)
KompasRssItems(items, articles) ==
    IF items = <<>> THEN articles
    ELSE LET item == Head(items)
         IN  IF item.title = <<>> \/ item.link = "" THEN KompasRssItems(Tail(items), articles)
             ELSE IF item.age > MaxAgeHours THEN KompasRssItems(Tail(items), articles)
             ELSE IF item.link \in UrlsOf(articles) THEN KompasRssItems(Tail(items), articles)
             ELSE KompasRssItems(Tail(items), Append(articles, Stub(item, Kompas)))

scrapeViaRSS(src, feeds) ==
    IF src = Kompas
    THEN LET feed == Head(feeds)
             articles == IF feed.threw \/ feed.items = <<>> THEN <<>>
                         ELSE KompasRssItems(Take(feed.items, KompasRssItemLimit), <<>>)
         IN  IF articles = <<>>
             THEN \* "All RSS feeds failed or returned no articles"
                  [threw |-> TRUE, articles |-> <<>>]
             ELSE [threw |-> FALSE,
                   articles |-> Take(SortNewestFirst(UniqueByUrl(articles)), RssResultLimit)]
    ELSE IF src = Detik
    THEN LET articles == DetikFeeds(feeds, <<>>)
         IN  IF articles = <<>>
             THEN \* "All RSS feeds failed or returned no articles"
                  [threw |-> TRUE, articles |-> <<>>]
             ELSE [threw |-> FALSE,
                   articles |-> Take(SortNewestFirst(UniqueByUrl(articles)), RssResultLimit)]
    ELSE LET feed == Head(feeds)
         IN  IF feed.threw THEN [threw |-> TRUE, articles |-> <<>>]
             ELSE [threw |-> FALSE,
                   articles |-> RssItems(Take(feed.items, RssItemLimit), src,
                                         IF src = CNN THEN CnnMaxAgeHours ELSE MaxAgeHours)]

\* the urls isValidUrl accepts and the adapter's own filter lets through
ValidUrl(src, url) == url \notin {"", "javascript:void(0)"}

\* the element loop of scrapeViaHTML
RECURSIVE HtmlElements(_, _, _)
HtmlElements(elements, src, articles) ==
    IF elements = <<>> THEN articles
    ELSE LET el == Head(elements)
             title == cleanTitle(el.title)
             rest == Tail(elements)
         IN  IF el.title = <<>> \/ el.href = "" THEN HtmlElements(rest, src, articles)
             ELSE IF Len(title) < MinTitleLength THEN HtmlElements(rest, src, articles)
             ELSE IF ~ValidUrl(src, el.href) THEN HtmlElements(rest, src, articles)
             ELSE IF el.href \in UrlsOf(articles) THEN HtmlElements(rest, src, articles)
             ELSE HtmlElements(rest, src,
                      Append(articles, [title |-> title, url |-> el.href,
                                        age |-> el.age, source |-> src]))

\* scrapeViaHTML; page is the outcome of the GET of the listing page,
\* [threw, elements]
scrapeViaHTML(src, page) ==
    IF page.threw THEN [threw |-> TRUE, articles |-> <<>>]
    ELSE IF src = Kompas
    THEN \* KompasScraper skips the elements older than 48 hours as well
         LET Fresh(el) == el.age <= MaxAgeHours
         IN  [threw |-> FALSE,
              articles |-> Take(SortNewestFirst(HtmlElements(SelectSeq(page.elements, Fresh),
                                                             src, <<>>)),
                                KompasHtmlResultLimit)]
    ELSE [threw |-> FALSE,
          articles |-> Take(SortNewestFirst(HtmlElements(page.elements, src, <<>>)),
                            HtmlResultLimit)]

\* what the adapter does when scrapeViaRSS throws: the catch block of
\* scrapeNews records the error, the listing page is not fetched
OnRssFailure(src, page) ==
    [articles |-> <<>>, success |-> FALSE, errors |-> 1, htmlCalled |-> FALSE]

\* a scrapeNews that reports success whenever nothing was thrown
scrapeNewsOptimistic(src, feeds, page) ==
    LET rss == scrapeViaRSS(src, feeds)
        html == scrapeViaHTML(src, page)
    IN  IF rss.threw THEN OnRssFailure(src, page)
        ELSE IF Len(rss.articles) > 0
        THEN [articles |-> rss.articles, success |-> TRUE, errors |-> 0, htmlCalled |-> FALSE]
        ELSE IF html.threw
        THEN [articles |-> <<>>, success |-> FALSE, errors |-> 1, htmlCalled |-> TRUE]
        ELSE [articles |-> html.articles, success |-> TRUE, errors |-> 0, htmlCalled |-> TRUE]

\* a scrapeNews that reads the listing page as well when the feed gave items
scrapeNewsBoth(src, feeds, page) ==
    LET rss == scrapeViaRSS(src, feeds)
        html == scrapeViaHTML(src, page)
    IN  IF rss.threw THEN OnRssFailure(src, page)
        ELSE IF html.threw
        THEN [articles |-> <<>>, success |-> FALSE, errors |-> 1, htmlCalled |-> TRUE]
        ELSE [articles |-> rss.articles \o html.articles,
              success |-> Len(rss.articles \o html.articles) > 0,
              errors |-> 0, htmlCalled |-> TRUE]

\* scrapeNews of the adapters
scrapeNews(src, feeds, page) ==
    LET rss == scrapeViaRSS(src, feeds)
        html == scrapeViaHTML(src, page)
    IN  IF rss.threw THEN OnRssFailure(src, page)
        ELSE IF Len(rss.articles) > 0
        THEN [articles |-> rss.articles, success |-> TRUE, errors |-> 0, htmlCalled |-> FALSE]
        ELSE IF html.threw
        THEN [articles |-> <<>>, success |-> FALSE, errors |-> 1, htmlCalled |-> TRUE]
        ELSE [articles |-> html.articles, success |-> Len(html.articles) > 0,
              errors |-> 0, htmlCalled |-> TRUE]

----------------------------------------------------------------------------
(* DatabaseService *)

NoSave == [kind |-> "none"]

RowsOf(rs, u) == {r \in rs : r.url = u}

\* SELECT 1 FROM articles WHERE url = ? LIMIT 1
HasUrl(rs, u) == RowsOf(rs, u) # {}

\* isArticleProcessed(url): throws when the store is not open
isArticleProcessed(st, u) ==
    [threw |-> ~st.open, ret |-> st.open /\ HasUrl(st.rows, u)]

\* an INSERT that reports a new row and stores none
InsertWithoutRow(st, a) ==
    [st EXCEPT !.nextId = st.nextId + 1,
               !.changes = 1,
               !.lastInsertRowid = st.nextId]

\* INSERT OR REPLACE: the conflicting row is deleted and a new one inserted
InsertOrReplace(st, a) ==
    [st EXCEPT !.rows = (st.rows \ RowsOf(st.rows, a.url)) \cup
                   {[id |-> st.nextId, url |-> a.url, title |-> SanitizeTitle(a.title),
                     source |-> a.source,
                     matchedKeywords |-> a.matchedKeywords, age |-> 0]},
               !.nextId = st.nextId + 1,
               !.changes = 1,
               !.lastInsertRowid = st.nextId]

\* INSERT OR IGNORE INTO articles (url, title, ...): the UNIQUE constraint on
\* url makes the statement a no-op when a row with that url exists
InsertOrIgnore(st, a) ==
    IF HasUrl(st.rows, a.url)
    THEN [st EXCEPT !.changes = 0]
    ELSE [st EXCEPT !.rows = st.rows \cup
                        {[id |-> st.nextId, url |-> a.url, title |-> SanitizeTitle(a.title),
                          source |-> a.source,
                     matchedKeywords |-> a.matchedKeywords, age |-> 0]},
                    !.nextId = st.nextId + 1,
                    !.changes = 1,
                    !.lastInsertRowid = st.nextId]

\* the default of the limit parameter of getRecentArticles
DefaultLimit == 50

\* the orders ORDER BY processed_at DESC may give the rows rs: newest first,
\* rows of the same processed_at in any order
RECURSIVE NewestFirst(_)
NewestFirst(rs) ==
    IF rs = {} THEN {<<>>}
    ELSE UNION {{<<r>> \o s : s \in NewestFirst(rs \ {r})} :
                   r \in {x \in rs : \A y \in rs : x.age <= y.age}}

\* getRecentArticles(source, limit): the lists it may return; source "" stands
\* for the parameter left out
getRecentArticles(st, source, limit) ==
    IF ~st.open
    THEN [threw |-> TRUE, ret |-> {}]
    ELSE LET selected == IF source = "" THEN st.rows
                         ELSE {r \in st.rows : r.source = source}
         IN  [threw |-> FALSE, ret |-> {Take(s, limit) : s \in NewestFirst(selected)}]

\* the state a call works on
DbState == [rows |-> rows, nextId |-> nextId, open |-> dbOpen,
            changes |-> 0, lastInsertRowid |-> 0]

\* the outcome of one storage operation, taken from the fault script; past the
\* end of the script the storage works
Outcome(script) == IF script = <<>> THEN "ok" ELSE Head(script)

Rest(script) == IF script = <<>> THEN script ELSE Tail(script)

\* the checks saveArticle makes before the INSERT: "Missing required article
\* fields" and "Article title is empty after sanitization"
ValidRecord(a) ==
    /\ ~(a.url = "" \/ a.title = <<>> \/ a.source = "")
    /\ SanitizeTitle(a.title) # <<>>

\* saveArticle(article) with the storage behaving as the script says. The
\* result: the state after the call, the value returned (ret), whether the
\* call threw, and how many INSERTs (writes) and initialize() calls (reinits)
\* it made.
RECURSIVE saveArticle(_, _, _)
saveArticle(st, a, script) ==
    IF ~st.open
    THEN \* thrown before the try block
         [st |-> st, ret |-> 0, threw |-> TRUE, writes |-> 0, reinits |-> 0]
    ELSE IF ~ValidRecord(a)
    THEN \* the Error thrown by the validation is caught, logged, 0 returned
         [st |-> st, ret |-> 0, threw |-> FALSE, writes |-> 0, reinits |-> 0]
    ELSE CASE Outcome(script) = "ok" ->
                LET ins == InsertOrIgnore(st, a)
                    existing == CHOOSE r \in RowsOf(ins.rows, a.url) : TRUE
                IN  [st |-> ins,
                     ret |-> IF ins.changes = 0 THEN existing.id ELSE ins.lastInsertRowid,
                     threw |-> FALSE, writes |-> 1, reinits |-> 0]
           [] Outcome(script) = "error" ->
                \* any other SQLite error: logged, 0 returned
                [st |-> st, ret |-> 0, threw |-> FALSE, writes |-> 1, reinits |-> 0]
           [] Outcome(script) = "corrupt" ->
                \* SQLITE_CORRUPT: initialize() succeeds, saveArticle is called again
                LET again == saveArticle(st, a, Rest(script))
                IN  [again EXCEPT !.writes = @ + 1, !.reinits = @ + 1]
           [] OTHER ->
                \* "corrupt_initfail": SQLITE_CORRUPT and initialize() throws
                [st |-> st, ret |-> 0, threw |-> TRUE, writes |-> 1, reinits |-> 1]

WriteOutcomes == {"ok", "error", "corrupt", "corrupt_initfail"}

RECURSIVE SeqsUpTo(_, _)
SeqsUpTo(S, n) ==
    IF n = 0 THEN {<<>>}
    ELSE LET shorter == SeqsUpTo(S, n - 1)
         IN  shorter \cup {Append(s, x) : s \in {t \in shorter : Len(t) = n - 1}, x \in S}

\* fault scripts: what the storage does on the successive INSERTs of one call
\* (an outcome other than "corrupt" ends the call, so it comes last)
Scripts ==
    {s \in SeqsUpTo(WriteOutcomes \ {"ok"}, MaxFaults) :
        \A i \in 1..(Len(s) - 1) : s[i] = "corrupt"}

----------------------------------------------------------------------------
(* The store on its own: DatabaseService under any sequence of calls *)

RetentionDays == 30

StoreUrls == {"u1", "u2"}

StoreTitles == {<<"a">>, <<"b", "^A">>, <<" ">>}

StoreArticles ==
    [url : StoreUrls, title : StoreTitles, source : {"CNN Indonesia"},
     matchedKeywords : {<< <<"a", "b">> >>}]
        \cup {[url |-> "", title |-> <<>>, source |-> "CNN Indonesia",
               matchedKeywords |-> << <<"a", "b">> >>]}

\* what a saveArticle call is remembered by
SaveRecord(a, script, res) ==
    [kind |-> "save", url |-> a.url, title |-> a.title, source |-> a.source,
     faults |-> Len(script),
     valid |-> ValidRecord(a),
     ret |-> res.ret, threw |-> res.threw, writes |-> res.writes,
     reinits |-> res.reinits,
     rowsAfter |-> {[id |-> r.id, url |-> r.url, title |-> r.title, source |-> r.source] :
                       r \in RowsOf(res.st.rows, a.url)}]

\* a call with a record that passes validation, on an open store that
\* answers without a fault
CleanSave(s) == s.kind = "save" /\ s.valid /\ s.faults = 0 /\ ~s.threw

\* the default of MAX_ARTICLES_PER_CHECK
DefaultMaxArticles == 10

NoScrape == [kind |-> "none"]

NoProbe == [kind |-> "none", text |-> <<>>, keywords |-> <<>>, result |-> <<>>]

JobNames == {"news-monitor", "status-logger", "keep-alive", "database-cleanup"}

\* the state before main() runs, but for the world and the calls recorded
Constructed ==
    /\ rows = {}
    /\ nextId = 1
    /\ dbOpen = FALSE
    /\ lastSave = NoSave
    /\ prevSave = NoSave
    /\ jobs = <<>>
    /\ active = [n \in JobNames |-> 0]
    /\ orphans = {}
    /\ timers = {}
    /\ pc = "down"
    /\ exitCode = "none"
    /\ isRunning = FALSE
    /\ maxArticlesPerCheck = DefaultMaxArticles
    /\ mpc = "idle"
    /\ owner = "start"
    /\ srcIdx = 1
    /\ allArticles = <<>>
    /\ articlesToProcess = <<>>
    /\ sentCount = 0
    /\ saveIdx = 0
    /\ visited = {}
    /\ failedSources = {}
    /\ acceptedOnce = {}
    /\ acceptedTwice = {}
    /\ cleanupRan = FALSE
    /\ cbThrew = FALSE
    /\ saveFailed = FALSE

Init ==
    /\ Constructed
    /\ env \in {"any", "steady"}
    /\ lastScrape = NoScrape
    /\ probe = NoProbe

notDb == <<schedVars, botVars, cycleVars, histVars>>

\* initialize(): opens the database file and creates the table if it is missing
DbInitialize ==
    /\ dbOpen' = TRUE
    /\ UNCHANGED <<rows, nextId, lastSave, prevSave, notDb>>

\* close()
DbClose ==
    /\ dbOpen' = FALSE
    /\ UNCHANGED <<rows, nextId, lastSave, prevSave, notDb>>

\* what a saveArticle call does to the store and to the record of calls
Save(a, script) ==
    LET res == saveArticle(DbState, a, script)
    IN  /\ rows' = res.st.rows
        /\ nextId' = res.st.nextId
        /\ dbOpen' = res.st.open
        /\ lastSave' = SaveRecord(a, script, res)
        /\ prevSave' = IF lastSave.kind = "save"
                        THEN [kind |-> "save", url |-> lastSave.url, ret |-> lastSave.ret,
                              rowsAfter |-> lastSave.rowsAfter]
                        ELSE NoSave

DbSaveArticle(a, script) ==
    /\ nextId <= MaxId
    /\ Save(a, script)
    /\ UNCHANGED notDb

\* a DELETE that also removes the rows written exactly olderThanDays ago
cleanupInclusive(rs, olderThanDays) == {r \in rs : r.age < olderThanDays}

\* DELETE FROM articles WHERE processed_at < now - olderThanDays
cleanup(rs, olderThanDays) == {r \in rs : ~(r.age > olderThanDays)}

\* result.changes of the DELETE: the number of rows it removed
cleanupChanges(rs, olderThanDays) == Cardinality(rs \ cleanup(rs, olderThanDays))

\* values of olderThanDays the store is called with
CleanupDays == {TickDays, RetentionDays}

\* cleanup(olderThanDays) on an open store, and what the call is remembered by
DbCleanup(olderThanDays) ==
    /\ dbOpen
    /\ rows' = cleanup(rows, olderThanDays)
    /\ lastSave' = [kind |-> "cleanup", days |-> olderThanDays,
                    ret |-> cleanupChanges(rows, olderThanDays),
                    before |-> rows, after |-> rows']
    /\ prevSave' = NoSave
    /\ UNCHANGED <<nextId, dbOpen, notDb>>

Older(r) == [r EXCEPT !.age = IF r.age + TickDays > MaxAge THEN MaxAge ELSE r.age + TickDays]

\* time passes: every stored row gets TickDays older
Tick ==
    /\ \E r \in rows : r.age < MaxAge
    /\ rows' = {Older(r) : r \in rows}
    /\ UNCHANGED <<nextId, dbOpen, lastSave, prevSave, notDb>>

StoreNext ==
    \/ DbInitialize
    \/ DbClose
    \/ \E a \in StoreArticles, script \in Scripts : DbSaveArticle(a, script)
    \/ \E d \in CleanupDays : DbCleanup(d)
    \/ Tick

StoreInit == Init /\ env = "any"

StoreSpec == StoreInit /\ [][StoreNext]_vars

----------------------------------------------------------------------------
(* SchedulerService.  A job is a CronJob: [running, cb], cb naming its      *)
(* callback.  A CronJob that is running fires at the times of its cron      *)
(* expression; every fire calls onTick, whether or not an earlier call of   *)
(* it has returned.                                                         *)

\* invocations of the callback of one job in progress at once
MaxActive == 2

\* invocations of callbacks in progress at once in the running bot, over all
\* its jobs
MaxRunning == 1

ActiveTotal(act) ==
    act["news-monitor"] + act["status-logger"] + act["keep-alive"] + act["database-cleanup"]

\* minutesToCron: "Interval must be at least 1 minute"
MinIntervalMinutes == 1

\* the cronTime argument: a number of minutes, or a cron expression
Minutes(n) == [isNumber |-> TRUE, minutes |-> n, expression |-> ""]
Expression(e) == [isNumber |-> FALSE, minutes |-> 0, expression |-> e]

\* a field of a cron expression: "0", or "*" and "*/step" (Every(1) is "*")
Zero == [zero |-> TRUE, step |-> 1]
Every(step) == [zero |-> FALSE, step |-> step]

\* minutesToCron(minutes): the minute and the hour field of the expression it
\* returns (the other three are "*"), or the error it throws
minutesToCron(minutes) ==
    IF minutes < MinIntervalMinutes
    THEN [threw |-> TRUE, minute |-> Every(1), hour |-> Every(1)]
    ELSE IF minutes = 1 THEN [threw |-> FALSE, minute |-> Every(1), hour |-> Every(1)]
    ELSE IF minutes < 60 THEN [threw |-> FALSE, minute |-> Every(minutes), hour |-> Every(1)]
    ELSE IF minutes = 60 THEN [threw |-> FALSE, minute |-> Zero, hour |-> Every(1)]
    ELSE IF minutes % 60 = 0
    THEN [threw |-> FALSE, minute |-> Zero, hour |-> Every(minutes \div 60)]
    ELSE [threw |-> FALSE, minute |-> Every(minutes), hour |-> Every(1)]

\* the values of 0..max a field of a cron expression stands for
FieldValues(field, max) ==
    IF field.zero THEN {0} ELSE {v \in 0..max : v % field.step = 0}

DayMinutes == 24 * 60

\* whether a CronJob of the expression fires at minute t of the day
Fires(cron, t) ==
    /\ (t % 60) \in FieldValues(cron.minute, 59)
    /\ (t \div 60) \in FieldValues(cron.hour, 23)

\* whether scheduleJob gets a cron expression the CronJob constructor takes:
\* a number of minutes goes through minutesToCron, a string is taken as it is
CronTimeOk(cronTime) ==
    IF cronTime.isNumber THEN ~minutesToCron(cronTime.minutes).threw
    ELSE cronTime.expression # "invalid"

Registered(js, name) == name \in DOMAIN js

\* this.jobs.set(name, job)
SetJob(js, name, job) ==
    [n \in (DOMAIN js) \cup {name} |-> IF n = name THEN job ELSE js[n]]

\* this.jobs.delete(name)
DeleteJob(js, name) == [n \in (DOMAIN js) \ {name} |-> js[n]]

\* job.stop() on the CronJob registered under name: it is no longer running
StopCron(js, name) == [js EXCEPT ![name].running = FALSE]

\* the CronJob registered under name, when it is running: [name, cb]
RunningJob(js, name) ==
    IF Registered(js, name) /\ js[name].running
    THEN {[name |-> name, cb |-> js[name].cb]} ELSE {}

\* this.jobs.delete(name) without job.stop()
stopJobNoStop(js, name) ==
    IF ~Registered(js, name) THEN [jobs |-> js, ret |-> FALSE, orphans |-> {}]
    ELSE [jobs |-> DeleteJob(js, name), ret |-> TRUE, orphans |-> RunningJob(js, name)]

\* stopJob(name): job.stop(), then this.jobs.delete(name).  The result: the
\* new value of this.jobs, the value returned, and the CronJob that left
\* this.jobs while running (orphans)
stopJob(js, name) ==
    IF ~Registered(js, name) THEN [jobs |-> js, ret |-> FALSE, orphans |-> {}]
    ELSE LET stopped == StopCron(js, name)
         IN  [jobs |-> DeleteJob(stopped, name), ret |-> TRUE,
              orphans |-> RunningJob(stopped, name)]

\* this.jobs.set(name, job) over a job already registered, which is not
\* stopped
scheduleJobNoStop(js, name, cronTime, cb, startImmediately) ==
    IF ~CronTimeOk(cronTime) THEN [threw |-> TRUE, jobs |-> js, orphans |-> {}]
    ELSE [threw |-> FALSE,
          jobs |-> SetJob(js, name, [running |-> startImmediately, cb |-> cb]),
          orphans |-> RunningJob(js, name)]

\* a scheduleJob that stops the job registered under the name before it
\* makes the new CronJob
scheduleJobStopsFirst(js, name, cronTime, cb, startImmediately) ==
    LET job == [running |-> startImmediately, cb |-> cb]
        old == IF Registered(js, name) THEN stopJob(js, name)
               ELSE [jobs |-> js, ret |-> FALSE, orphans |-> {}]
    IN  IF ~CronTimeOk(cronTime) THEN [threw |-> TRUE, jobs |-> old.jobs, orphans |-> old.orphans]
        ELSE [threw |-> FALSE, jobs |-> SetJob(old.jobs, name, job), orphans |-> old.orphans]

\* scheduleJob(name, cronTime, callback, startImmediately): the new CronJob
\* is started by its constructor when startImmediately holds; a job already
\* registered under the name is stopped and deleted by stopJob, then the new
\* one is set.  The result: whether it threw, the new value of this.jobs and
\* the CronJob that left this.jobs while running
scheduleJob(js, name, cronTime, cb, startImmediately) ==
    IF ~CronTimeOk(cronTime) THEN [threw |-> TRUE, jobs |-> js, orphans |-> {}]
    ELSE LET job == [running |-> startImmediately, cb |-> cb]
             old == IF Registered(js, name) THEN stopJob(js, name)
                    ELSE [jobs |-> js, ret |-> FALSE, orphans |-> {}]
         IN  [threw |-> FALSE, jobs |-> SetJob(old.jobs, name, job), orphans |-> old.orphans]

\* stopAllJobs(): job.stop() for every job, then this.jobs.clear()
stopAllJobs(js) ==
    LET stopped == [n \in DOMAIN js |-> [js[n] EXCEPT !.running = FALSE]]
    IN  [jobs |-> <<>>, orphans |-> UNION {RunningJob(stopped, n) : n \in DOMAIN js}]

\* getJobsStatus(): name -> running
getJobsStatus(js) == [n \in DOMAIN js |-> js[n].running]

\* getNextRunTime(name): null for a name without a job, else the next date
\* of the CronJob's expression
getNextRunTime(js, name) == IF ~Registered(js, name) THEN "null" ELSE "date"

\* a fire of the job: the CronJob calls onTick when it is running
CanFire(js, act, name) == Registered(js, name) /\ js[name].running

\* the CronJobs created under name that fire: the one in this.jobs when it
\* is running, and those that left this.jobs while running
Firing(js, orph, name) == RunningJob(js, name) \cup {o \in orph : o.name = name}


----------------------------------------------------------------------------
(* What the outside world gives the program *)

\* config.keywords
Keywords == << <<"a", "b">> >>

TitleHit == <<"a", "b", " ", "n", "e", "w", "s", " ", "x", "x">>
TitleMiss == <<"a", "b", "c", " ", "n", "e", "w", "s", " ", "x">>

Item(t, u, h) == [title |-> t, link |-> u, age |-> h]
Element(t, u, h) == [title |-> t, href |-> u, age |-> h]
Feed(items) == [threw |-> FALSE, items |-> items]
FeedDown == [threw |-> TRUE, items |-> <<>>]
Page(elements) == [threw |-> FALSE, elements |-> elements]
PageDown == [threw |-> TRUE, elements |-> <<>>]

\* the urls of the steady world, two per source
SteadyUrls(src) ==
    IF src = CNN THEN <<"c1", "c2">> ELSE IF src = Detik THEN <<"d1", "d2">> ELSE <<"b1", "b2">>

\* the url the other world's items of a source carry
AnyUrl(src) == SteadyUrls(src)[1]

Urls == {"c1", "c2", "d1", "d2", "b1", "b2"}

\* the steady world: every source returns the same two matching items each
\* time, the webhook accepts every message, the storage has no fault
SteadyFeeds(src) ==
    LET both == Feed(<<Item(TitleHit, SteadyUrls(src)[1], 0), Item(TitleHit, SteadyUrls(src)[2], 0)>>)
    IN  IF src = Detik THEN <<both, Feed(<<>>)>> ELSE <<both>>

\* the other world: what one feed url may answer.  Every source may be
\* down or empty; CNN may carry one matching item or one that is 30 hours
\* old, Detik an item that matches no keyword, BBC a matching item once or
\* twice
AnyFeed(src) ==
    LET u == AnyUrl(src)
    IN  {FeedDown, Feed(<<>>)}
            \cup (IF src = CNN
                  THEN {Feed(<<Item(TitleHit, u, 0)>>), Feed(<<Item(TitleHit, u, 30)>>)}
                  ELSE IF src = Detik
                  THEN {Feed(<<Item(TitleMiss, u, 0)>>)}
                  ELSE {Feed(<<Item(TitleHit, u, 0)>>),
                        Feed(<<Item(TitleHit, u, 0), Item(TitleHit, u, 0)>>)})

\* what the feed urls of a source answer in a world
FeedMenu(world, src) ==
    IF world = "steady" THEN {SteadyFeeds(src)}
    ELSE IF src = Detik THEN {<<f1, f2>> : f1 \in AnyFeed(src), f2 \in {FeedDown, Feed(<<>>)}}
    ELSE {<<f>> : f \in AnyFeed(src)}

\* what the listing page of a source answers in a world
PageMenu(world, src) ==
    IF world = "steady" THEN {Page(<<>>)}
    ELSE {PageDown, Page(<<Element(TitleHit, AnyUrl(src), 0)>>)}

FeedChoices(src) == FeedMenu(env, src)

PageChoices(src) == PageMenu(env, src)

\* scrapeViaRSS and scrapeNews of every source on every answer of the two
\* worlds, worked out once
ScrapeTable ==
    UNION {{[source |-> src, feeds |-> feeds, page |-> page,
             rss |-> scrapeViaRSS(src, feeds), result |-> scrapeNews(src, feeds, page)] :
               feeds \in FeedMenu("steady", src) \cup FeedMenu("any", src),
               page \in PageMenu("steady", src) \cup PageMenu("any", src)} :
           src \in AllSources}

Scraped(src, feeds, page) ==
    CHOOSE row \in ScrapeTable : row.source = src /\ row.feeds = feeds /\ row.page = page

\* findMatchingKeywords(title, this.config.keywords) for the titles of the
\* stubs, worked out once
KeywordTable ==
    [t \in {cleanTitle(TitleHit), cleanTitle(TitleMiss)} |-> findMatchingKeywords(t, Keywords)]

\* the status of the webhook's answer to a message
ResponseChoices == IF env = "steady" THEN {204} ELSE {204, 500}

\* what the storage answers to the writes of one saveArticle call of a cycle
ScriptChoices == IF env = "steady" THEN {<<>>} ELSE {<<>>, <<"error">>, <<"corrupt">>}

----------------------------------------------------------------------------
(* DiscordService *)

\* sendBulkArticles(articles, maxPerBatch = 5)
MaxPerBatch == 5

\* sendArticle: true exactly when the webhook answers 204
sendArticle(status) == status = 204

\* a loop of sendBulkArticles that goes through the whole list
BatchSizeWholeList(articles) == Len(articles)

\* the number of articles the loop of sendBulkArticles goes through
BatchSize(articles) == IF Len(articles) < MaxPerBatch THEN Len(articles) ELSE MaxPerBatch

----------------------------------------------------------------------------
(* PemerintahBot.monitorNews *)

\* Array.prototype.slice(0, end)
Slice0(list, end) ==
    LET e == IF end < 0 THEN (IF Len(list) + end < 0 THEN 0 ELSE Len(list) + end)
             ELSE IF end > Len(list) THEN Len(list) ELSE end
    IN  SubSeq(list, 1, e)

\* the loop over result.articles without the look into the store: every stub
\* with a matching keyword is pushed on allArticles
RECURSIVE ProcessStubsUnchecked(_, _, _, _)
ProcessStubsUnchecked(stubs, all, rs, failAt) ==
    IF stubs = <<>> THEN [all |-> all, threw |-> FALSE]
    ELSE LET stub == Head(stubs)
             matchedKeywords == KeywordTable[stub.title]
         IN  IF Len(matchedKeywords) > 0
             THEN IF failAt = 1 THEN [all |-> all, threw |-> TRUE]
                  ELSE ProcessStubsUnchecked(Tail(stubs),
                           Append(all, [title |-> stub.title, url |-> stub.url,
                                        age |-> stub.age, source |-> stub.source,
                                        matchedKeywords |-> matchedKeywords]),
                           rs, IF failAt = 0 THEN 0 ELSE failAt - 1)
             ELSE ProcessStubsUnchecked(Tail(stubs), all, rs, failAt)

\* the loop over result.articles: a stub with a matching keyword whose url is
\* not in the store is pushed on allArticles.  The failAt-th call of
\* isArticleProcessed throws (none when failAt is 0).  The result is the new
\* allArticles and whether the loop threw.
\* a loop over result.articles that keeps the articles no keyword matches
RECURSIVE ProcessStubsUnmatched(_, _, _, _)
ProcessStubsUnmatched(stubs, all, rs, failAt) ==
    IF stubs = <<>> THEN [all |-> all, threw |-> FALSE]
    ELSE LET stub == Head(stubs)
             matchedKeywords == KeywordTable[stub.title]
         IN  IF failAt = 1 THEN [all |-> all, threw |-> TRUE]
             ELSE ProcessStubsUnmatched(Tail(stubs),
                      IF HasUrl(rs, stub.url) THEN all
                      ELSE Append(all, [title |-> stub.title, url |-> stub.url,
                                        age |-> stub.age, source |-> stub.source,
                                        matchedKeywords |-> matchedKeywords]),
                      rs, IF failAt = 0 THEN 0 ELSE failAt - 1)

RECURSIVE ProcessStubs(_, _, _, _)
ProcessStubs(stubs, all, rs, failAt) ==
    IF stubs = <<>> THEN [all |-> all, threw |-> FALSE]
    ELSE LET stub == Head(stubs)
             matchedKeywords == KeywordTable[stub.title]
         IN  IF Len(matchedKeywords) > 0
             THEN IF failAt = 1 THEN [all |-> all, threw |-> TRUE]
                  ELSE ProcessStubs(Tail(stubs),
                           IF HasUrl(rs, stub.url) THEN all
                           ELSE Append(all, [title |-> stub.title, url |-> stub.url,
                                             age |-> stub.age, source |-> stub.source,
                                             matchedKeywords |-> matchedKeywords]),
                           rs, IF failAt = 0 THEN 0 ELSE failAt - 1)
             ELSE ProcessStubs(Tail(stubs), all, rs, failAt)

\* the loop over the sources is left at the error
AbortCycle(idx) == [mpc |-> "cap", srcIdx |-> idx + 1]

\* where the cycle goes when the visit of a source has thrown: the catch
\* block inside the loop logs the error and the loop goes on
AfterSourceError(idx) == [mpc |-> IF idx = Len(Scrapers) THEN "cap" ELSE "scrape", srcIdx |-> idx + 1]

\* where it goes after a visit that did not throw
AfterSource(idx) == [mpc |-> IF idx = Len(Scrapers) THEN "cap" ELSE "scrape", srcIdx |-> idx + 1]

\* monitorNews is called: by start() or by a fire of the job
BeginCycle(who) ==
    /\ mpc' = "scrape"
    /\ owner' = who
    /\ srcIdx' = 1
    /\ allArticles' = <<>>
    /\ articlesToProcess' = <<>>
    /\ sentCount' = 0
    /\ saveIdx' = 0
    /\ visited' = {}
    /\ failedSources' = {}
    /\ lastScrape' = NoScrape

\* one turn of the loop over this.scrapers
ScrapeSource ==
    /\ mpc = "scrape"
    /\ \E feeds \in FeedChoices(Scrapers[srcIdx]), page \in PageChoices(Scrapers[srcIdx]),
          failAt \in (IF env = "steady" THEN {0} ELSE {0, 1}) :
          LET src == Scrapers[srcIdx]
              scraped == Scraped(src, feeds, page)
              result == scraped.result
              usable == result.success /\ Len(result.articles) > 0
              done == IF usable THEN ProcessStubs(result.articles, allArticles, rows, failAt)
                      ELSE [all |-> allArticles, threw |-> FALSE]
              next == IF done.threw THEN AfterSourceError(srcIdx) ELSE AfterSource(srcIdx)
          IN  /\ failAt > 0 => done.threw
              /\ allArticles' = done.all
              /\ mpc' = next.mpc
              /\ srcIdx' = next.srcIdx
              /\ visited' = visited \cup {src}
              /\ failedSources' = IF done.threw \/ ~usable THEN failedSources \cup {src}
                                  ELSE failedSources
              /\ lastScrape' = [kind |-> "scrape", source |-> src,
                                rssThrew |-> scraped.rss.threw,
                                rssCount |-> Len(scraped.rss.articles),
                                htmlCalled |-> result.htmlCalled,
                                success |-> result.success,
                                errors |-> result.errors]
    /\ UNCHANGED <<dbVars, schedVars, botVars, owner, articlesToProcess, sentCount, saveIdx,
                   acceptedOnce, acceptedTwice, cleanupRan, cbThrew, probe, saveFailed>>

\* the cycle is over: monitorNews returns to its caller
EndCycle ==
    /\ mpc' = "idle"
    /\ allArticles' = <<>>
    /\ articlesToProcess' = <<>>
    /\ sentCount' = 0
    /\ saveIdx' = 0
    /\ srcIdx' = 1
    /\ visited' = {}
    /\ failedSources' = {}
    /\ lastScrape' = NoScrape
    /\ IF owner = "start"
       THEN /\ pc' = "finish"
            /\ active' = active
       ELSE /\ pc' = pc
            /\ active' = [active EXCEPT !["news-monitor"] = @ - 1]
    /\ owner' = "start"

\* after the loop: nothing found, or the list is cut to maxArticlesPerCheck
\* and handed to sendBulkArticles.  allArticles stays as it is to the end of
\* the cycle; what is remembered of the loop over the sources is forgotten
CapArticles ==
    /\ mpc = "cap"
    /\ IF allArticles = <<>>
       THEN /\ EndCycle
            /\ UNCHANGED <<dbVars, jobs, orphans, timers, env, exitCode, isRunning, maxArticlesPerCheck,
                           acceptedOnce, acceptedTwice, cleanupRan, cbThrew, probe, saveFailed>>
       ELSE /\ articlesToProcess' = Slice0(allArticles, maxArticlesPerCheck)
            /\ mpc' = IF BatchSize(articlesToProcess') = 0 THEN "save" ELSE "send"
            /\ visited' = {}
            /\ failedSources' = {}
            /\ lastScrape' = NoScrape
            /\ UNCHANGED <<dbVars, schedVars, botVars, owner, srcIdx, allArticles, sentCount,
                           saveIdx, acceptedOnce, acceptedTwice, cleanupRan, cbThrew, probe, saveFailed>>

\* one turn of the loop of sendBulkArticles: the article is sent; the loop
\* ends at the first failure and after the last article of the batch
SendNext ==
    /\ mpc = "send"
    /\ \E status \in ResponseChoices :
          LET article == articlesToProcess[sentCount + 1]
              success == sendArticle(status)
          IN  /\ sentCount' = IF success THEN sentCount + 1 ELSE sentCount
              /\ mpc' = IF success /\ sentCount + 1 < BatchSize(articlesToProcess)
                        THEN "send" ELSE "save"
              /\ acceptedOnce' = IF success THEN acceptedOnce \cup {article.url} ELSE acceptedOnce
              /\ acceptedTwice' = IF success /\ article.url \in acceptedOnce
                                  THEN acceptedTwice \cup {article.url} ELSE acceptedTwice
    /\ UNCHANGED <<dbVars, schedVars, botVars, owner, srcIdx, allArticles, articlesToProcess,
                   saveIdx, visited, failedSources, lastScrape, cleanupRan, cbThrew, probe, saveFailed>>

\* the articles the loop "for (const article of articlesToProcess)" saves
ArticlesToSave(toProcess, sent) == toProcess

\* a loop that gives up the remaining articles once a saveArticle has failed
AfterSaveGivesUp(idx, failed, n) == IF failed THEN n ELSE idx + 1

\* the index of the loop after saveArticle was called for article idx + 1 of
\* n: the value returned is not read and the catch block only logs, so the
\* loop goes on to the next article
AfterSave(idx, failed, n) == idx + 1

\* one turn of the loop that saves: saveArticle is called for the next article
SaveNext ==
    /\ mpc = "save"
    /\ saveIdx < Len(ArticlesToSave(articlesToProcess, sentCount))
    /\ \E script \in ScriptChoices :
          LET article == ArticlesToSave(articlesToProcess, sentCount)[saveIdx + 1]
              res == saveArticle(DbState, article, script)
          IN  /\ rows' = res.st.rows
              /\ nextId' = res.st.nextId
              /\ dbOpen' = res.st.open
              /\ saveFailed' = (saveFailed \/ res.threw \/ res.ret = 0)
              /\ saveIdx' = AfterSave(saveIdx, res.threw \/ res.ret = 0,
                                      Len(ArticlesToSave(articlesToProcess, sentCount)))
    /\ UNCHANGED <<lastSave, prevSave, schedVars, botVars, mpc, owner, srcIdx, allArticles, articlesToProcess,
                   sentCount, visited, failedSources, lastScrape, acceptedOnce, acceptedTwice,
                   cleanupRan, cbThrew, probe>>

\* the loop that saves is through
FinishCycle ==
    /\ mpc = "save"
    /\ saveIdx >= Len(ArticlesToSave(articlesToProcess, sentCount))
    /\ EndCycle
    /\ UNCHANGED <<timers, dbVars, jobs, orphans, env, exitCode, isRunning, maxArticlesPerCheck,
                   acceptedOnce, acceptedTwice, cleanupRan, cbThrew, probe, saveFailed>>

----------------------------------------------------------------------------
(* Fires of the jobs *)

NoJobs == [n \in JobNames |-> 0]

\* a running job fires: onTick is called and calls the callback
Fire(name) ==
    /\ active[name] < MaxActive
    /\ \E cron \in Firing(jobs, orphans, name) :
          IF cron.cb = "monitorNews" /\ mpc = "idle"
          THEN BeginCycle("job")
          ELSE UNCHANGED <<cycleVars, visited, failedSources, lastScrape>>
    /\ active' = [active EXCEPT ![name] = @ + 1]
    /\ UNCHANGED <<timers, dbVars, jobs, orphans, botVars, acceptedOnce, acceptedTwice, cleanupRan, cbThrew, probe, saveFailed>>

\* an onTick without the catch block: the error ends the CronJob
onTickUncaught(js, name, threw) ==
    IF threw /\ Registered(js, name) THEN StopCron(js, name) ELSE js

\* what onTick leaves of this.jobs when the callback has returned (threw is
\* false) or has thrown or rejected: the catch block logs the error, nothing
\* is stopped or deleted
onTick(js, name, threw) == js

\* an invocation of the callback of name ends: the callback returns, or it
\* throws and onTick catches.  The callback of "database-cleanup" is
\* database.cleanup(30)
Complete(name, threw) ==
    /\ active[name] > (IF name = "news-monitor" /\ mpc # "idle" /\ owner = "job" THEN 1 ELSE 0)
    /\ active' = [active EXCEPT ![name] = @ - 1]
    /\ jobs' = onTick(jobs, name, threw)
    /\ cbThrew' = (cbThrew \/ threw)
    /\ IF name = "database-cleanup" /\ dbOpen /\ ~threw
       THEN /\ rows' = cleanup(rows, RetentionDays)
            /\ cleanupRan' = TRUE
       ELSE UNCHANGED <<rows, cleanupRan>>
    /\ UNCHANGED <<timers, nextId, dbOpen, lastSave, prevSave, orphans, botVars, cycleVars, visited,
                   failedSources, lastScrape, acceptedOnce, acceptedTwice, probe, saveFailed>>

----------------------------------------------------------------------------
(* main() and PemerintahBot.start() *)

\* a variable of the environment: whether it is set, and what parseInt makes
\* of its value (NaN, or the number parsed)
Unset == [isSet |-> FALSE, isNaN |-> FALSE, parsed |-> 0]

NotANumber == [isSet |-> TRUE, isNaN |-> TRUE, parsed |-> 0]

Number(n) == [isSet |-> TRUE, isNaN |-> FALSE, parsed |-> n]

\* getEnvNumber: parseInt(value, 10) of the value or of the default, and only
\* NaN is refused
getEnvNumber(value, defaultValue) ==
    IF ~value.isSet THEN [threw |-> FALSE, ret |-> defaultValue]
    ELSE IF value.isNaN THEN [threw |-> TRUE, ret |-> 0]
    ELSE [threw |-> FALSE, ret |-> value.parsed]

\* MAX_ARTICLES_PER_CHECK as the environment may hold it; in the steady world
\* it is not set
MaxArticlesEnv ==
    IF env = "steady" THEN {Unset} ELSE {Unset, NotANumber, Number(-1), Number(1)}

\* the values of config.monitoring.maxArticlesPerCheck loadConfig returns
MaxArticlesChoices ==
    {getEnvNumber(v, DefaultMaxArticles).ret :
        v \in {w \in MaxArticlesEnv : ~getEnvNumber(w, DefaultMaxArticles).threw}}

\* CHECK_INTERVAL_MINUTES as loadConfig may read it
IntervalChoices == {0, 5}

Alive == {"init", "test", "unreachable", "schedule", "monitor", "finish", "running"}

\* main(): a process starts, with a new PemerintahBot
Main ==
    /\ pc = "down"
    /\ env = "steady" \/ nextId <= MaxId
    /\ pc' = "init"
    /\ exitCode' = "none"
    /\ isRunning' = FALSE
    /\ dbOpen' = FALSE
    /\ jobs' = <<>>
    /\ orphans' = {}
    /\ active' = NoJobs
    /\ maxArticlesPerCheck' \in MaxArticlesChoices
    /\ UNCHANGED <<timers, rows, nextId, lastSave, prevSave, env, cycleVars, histVars>>

\* shutdown(): returns at once unless isRunning; else stops the jobs, closes
\* the store and clears isRunning.  The result is [jobs, dbOpen, isRunning].
shutdown(js, open, running) ==
    IF ~running THEN [jobs |-> js, dbOpen |-> open, isRunning |-> running, orphans |-> {}]
    ELSE LET stopped == stopAllJobs(js)
         IN  [jobs |-> stopped.jobs, dbOpen |-> FALSE, isRunning |-> FALSE,
              orphans |-> stopped.orphans]

\* the catch block of start(): shutdown() is awaited, the error is thrown
\* again and main() calls process.exit(1).  No callback runs to its end
\* from here on
StartFails ==
    LET after == shutdown(jobs, dbOpen, isRunning)
    IN  /\ pc' = "exiting"
        /\ exitCode' = 1
        /\ jobs' = after.jobs
        /\ orphans' = orphans \cup after.orphans
        /\ dbOpen' = after.dbOpen
        /\ isRunning' = after.isRunning
        /\ active' = NoJobs

\* start() up to database.initialize()
StartInit ==
    /\ pc = "init"
    /\ \E ok \in (IF env = "steady" THEN {TRUE} ELSE BOOLEAN) :
          IF ok
          THEN /\ dbOpen' = TRUE
               /\ pc' = "test"
               /\ UNCHANGED <<jobs, orphans, active, exitCode, isRunning>>
          ELSE StartFails
    /\ UNCHANGED <<timers, rows, nextId, lastSave, prevSave, env, maxArticlesPerCheck,
                   cycleVars, histVars>>

\* discord.testConnection() returns to start(): true or false
StartTest ==
    /\ pc = "test"
    /\ \E discordConnected \in (IF env = "steady" THEN {TRUE} ELSE BOOLEAN) :
          pc' = IF discordConnected THEN "schedule" ELSE "unreachable"
    /\ UNCHANGED <<dbVars, schedVars, env, exitCode, isRunning, maxArticlesPerCheck,
                   cycleVars, histVars>>

\* a start() that goes on when the test has failed
GoesOnWhenUnreachable == FALSE

\* "if (!discordConnected) throw new Error(...)"
ThrowsWhenUnreachable == TRUE

\* start() with discordConnected false: the Error is thrown into the catch
\* block of start()
StartAborts ==
    /\ pc = "unreachable"
    /\ IF ThrowsWhenUnreachable
       THEN StartFails
       ELSE /\ pc' = "schedule"
            /\ UNCHANGED <<dbOpen, jobs, orphans, active, exitCode, isRunning>>
    /\ UNCHANGED <<timers, rows, nextId, lastSave, prevSave, env, maxArticlesPerCheck,
                   cycleVars, histVars>>

\* a job its constructor starts
StartedByConstructor == TRUE

\* the startImmediately argument of the scheduleJob call for "news-monitor"
MonitorStartsImmediately == FALSE

\* scheduleJob("news-monitor", checkIntervalMinutes, () => this.monitorNews(),
\* false), then the initial monitorNews() is called
StartSchedule ==
    /\ pc = "schedule"
    /\ \E minutes \in (IF env = "steady" THEN IntervalChoices \ {0} ELSE IntervalChoices) :
          LET scheduled == scheduleJob(jobs, "news-monitor", Minutes(minutes), "monitorNews",
                                       MonitorStartsImmediately)
          IN  IF scheduled.threw
              THEN /\ StartFails
                   /\ UNCHANGED <<cycleVars, visited, failedSources, lastScrape>>
              ELSE /\ jobs' = scheduled.jobs
                   /\ orphans' = orphans \cup scheduled.orphans
                   /\ pc' = "monitor"
                   /\ BeginCycle("start")
                   /\ UNCHANGED <<dbOpen, active, exitCode, isRunning>>
    /\ UNCHANGED <<timers, rows, nextId, lastSave, prevSave, env, maxArticlesPerCheck,
                   acceptedOnce, acceptedTwice, cleanupRan, cbThrew, probe, saveFailed>>

\* scheduleStatusLogging(): three jobs, started by their constructors
scheduleStatusLogging(js) ==
    LET a == scheduleJob(js, "status-logger", Minutes(60), "statusLog", TRUE)
        b == scheduleJob(a.jobs, "keep-alive", Minutes(10), "keepAlive", TRUE)
        c == scheduleJob(b.jobs, "database-cleanup", Expression("0 2 * * *"), "cleanup", TRUE)
    IN  [jobs |-> c.jobs, orphans |-> a.orphans \cup b.orphans \cup c.orphans]

\* the initial monitorNews() has returned: isRunning is set, the signal
\* handlers are installed, the other jobs are scheduled; start() returns
StartFinish ==
    /\ pc = "finish"
    /\ isRunning' = TRUE
    /\ jobs' = scheduleStatusLogging(jobs).jobs
    /\ orphans' = orphans \cup scheduleStatusLogging(jobs).orphans
    /\ pc' = "running"
    /\ UNCHANGED <<timers, dbVars, active, env, exitCode, maxArticlesPerCheck, cycleVars, histVars>>

\* SIGINT or SIGTERM is delivered to a bot whose handlers are installed: the
\* handler calls shutdown(), which returns at once unless isRunning and else
\* begins with scheduler.stopAllJobs().  No callback runs to its end from
\* here on
Signal ==
    /\ pc = "running"
    /\ IF ~isRunning
       THEN /\ pc' = "closed"
            /\ UNCHANGED <<jobs, orphans>>
       ELSE LET stopped == stopAllJobs(jobs)
            IN  /\ jobs' = stopped.jobs
                /\ orphans' = orphans \cup stopped.orphans
                /\ pc' = "shutdown"
    /\ active' = NoJobs
    /\ UNCHANGED <<timers, dbVars, env, exitCode, isRunning, maxArticlesPerCheck, cycleVars, histVars>>

\* shutdown() after stopAllJobs(): httpServer.stop(), database.close(),
\* isRunning = false
ShutdownClose ==
    /\ pc = "shutdown"
    /\ LET after == shutdown(jobs, dbOpen, isRunning)
       IN  /\ dbOpen' = after.dbOpen
           /\ isRunning' = after.isRunning
    /\ pc' = "closed"
    /\ UNCHANGED <<rows, nextId, lastSave, prevSave, schedVars, env, exitCode,
                   maxArticlesPerCheck, cycleVars, histVars>>

\* shutdown() has returned to the handler: process.exit(0)
ShutdownExit ==
    /\ pc = "closed"
    /\ pc' = "exiting"
    /\ exitCode' = 0
    /\ UNCHANGED <<dbVars, schedVars, env, isRunning, maxArticlesPerCheck, cycleVars, histVars>>

\* SIGINT or SIGTERM is delivered before setupGracefulShutdown() has
\* installed the handlers: the signal ends the process, nothing of
\* shutdown() runs and the exit status is that of the signal (130 for
\* SIGINT).  In the steady world signals come to the started bot only
KilledBySignal ==
    /\ env = "any"
    /\ pc \in {"init", "test", "schedule", "monitor", "finish"}
    /\ pc' = "exiting"
    /\ exitCode' = 130
    /\ active' = NoJobs
    /\ mpc' = "idle"
    /\ owner' = "start"
    /\ srcIdx' = 1
    /\ allArticles' = <<>>
    /\ articlesToProcess' = <<>>
    /\ sentCount' = 0
    /\ saveIdx' = 0
    /\ visited' = {}
    /\ failedSources' = {}
    /\ lastScrape' = NoScrape
    /\ UNCHANGED <<timers, dbVars, jobs, orphans, env, isRunning, maxArticlesPerCheck,
                   acceptedOnce, acceptedTwice, cleanupRan, cbThrew, probe, saveFailed>>

\* process.exit(): the process and all it held in memory are gone
ProcessExit ==
    /\ pc = "exiting"
    /\ pc' = "down"
    /\ jobs' = <<>>
    /\ orphans' = {}
    /\ active' = NoJobs
    /\ dbOpen' = FALSE
    /\ isRunning' = FALSE
    /\ mpc' = "idle"
    /\ owner' = "start"
    /\ srcIdx' = 1
    /\ allArticles' = <<>>
    /\ articlesToProcess' = <<>>
    /\ sentCount' = 0
    /\ saveIdx' = 0
    /\ visited' = {}
    /\ failedSources' = {}
    /\ lastScrape' = NoScrape
    /\ UNCHANGED <<timers, rows, nextId, lastSave, prevSave, env, exitCode, maxArticlesPerCheck,
                   acceptedOnce, acceptedTwice, cleanupRan, cbThrew, probe, saveFailed>>

\* a fire of a job of the running process
JobFires ==
    /\ pc \in Alive
    /\ ActiveTotal(active) < MaxRunning
    /\ \E name \in JobNames : Fire(name)

\* whether the callback the bot gave the job throws: getStats() and
\* cleanup() throw "Database not initialized" on a closed store, keep-alive
\* catches its own errors
CallbackThrows(name) == name \in {"status-logger", "database-cleanup"} /\ ~dbOpen

JobCompletes ==
    pc \in Alive /\ \E name \in JobNames : Complete(name, CallbackThrows(name))

\* days pass between the cycles
TimePasses == pc \in {"running", "down"} /\ nextId <= MaxId /\ Tick

Next ==
    \/ Main
    \/ StartInit
    \/ StartTest
    \/ StartAborts
    \/ StartSchedule
    \/ ScrapeSource
    \/ CapArticles
    \/ SendNext
    \/ SaveNext
    \/ FinishCycle
    \/ StartFinish
    \/ JobFires
    \/ JobCompletes
    \/ Signal
    \/ ShutdownClose
    \/ ShutdownExit
    \/ KilledBySignal
    \/ ProcessExit
    \/ TimePasses

Spec == Init /\ [][Next]_vars

\* a step of main(), of start(), of monitorNews or of the shutdown
Progress ==
    \/ Main
    \/ StartInit
    \/ StartTest
    \/ StartAborts
    \/ StartSchedule
    \/ ScrapeSource
    \/ CapArticles
    \/ SendNext
    \/ SaveNext
    \/ FinishCycle
    \/ StartFinish
    \/ Signal
    \/ ShutdownClose
    \/ ShutdownExit
    \/ ProcessExit

\* The bot under fairness: a process that can take a step of start() or of
\* monitorNews takes it, a running process is stopped in the end and a
\* stopped one is started again, so that cycles keep being run
FairSpec == Spec /\ WF_vars(Progress)

----------------------------------------------------------------------------
(* The SchedulerService on its own: any caller, any job, callbacks that    *)
(* take any time to return                                                  *)

CronTimes == {Minutes(0), Minutes(1), Expression("0 2 * * *"), Expression("invalid")}

notSched == <<dbVars, botVars, cycleVars, histVars>>

\* the callback given to scheduleJob: a function made for the call, told
\* from the one registered under the name
NewCallback(js, name) ==
    IF Registered(js, name) /\ js[name].cb = "task" THEN "task2" ELSE "task"

\* probe remembers the call: the name, whether it threw, and a bit that
\* tells it from the call before
SchedScheduleJob(name, cronTime, startImmediately) ==
    LET scheduled == scheduleJob(jobs, name, cronTime, NewCallback(jobs, name),
                                 startImmediately)
    IN  /\ jobs' = scheduled.jobs
        /\ orphans' = orphans \cup scheduled.orphans
        /\ probe' = [kind |-> "scheduleJob", name |-> name, threw |-> scheduled.threw,
                     odd |-> ~(probe.kind = "scheduleJob" /\ probe.odd)]
        /\ UNCHANGED <<timers, active, dbVars, botVars, cycleVars, visited, failedSources, lastScrape,
                       acceptedOnce, acceptedTwice, cleanupRan, cbThrew, saveFailed>>

SchedStopJob(name) ==
    /\ jobs' = stopJob(jobs, name).jobs
    /\ orphans' = orphans \cup stopJob(jobs, name).orphans
    /\ UNCHANGED <<timers, active, notSched>>

\* stopAllJobs() leaves the timers of scheduleDelayedTask alone: their
\* handles are kept nowhere.  probe remembers the call
SchedStopAllJobs ==
    /\ jobs' = stopAllJobs(jobs).jobs
    /\ orphans' = orphans \cup stopAllJobs(jobs).orphans
    /\ probe' = [kind |-> "stopAllJobs"]
    /\ UNCHANGED <<timers, active, dbVars, botVars, cycleVars, visited, failedSources, lastScrape,
                   acceptedOnce, acceptedTwice, cleanupRan, cbThrew, saveFailed>>

\* the names the callers of the scheduler use
SchedNames == {"news-monitor", "status-logger", "keep-alive"}

SchedNext ==
    \/ \E name \in SchedNames, cronTime \in CronTimes, startImmediately \in BOOLEAN :
          SchedScheduleJob(name, cronTime, startImmediately)
    \/ \E name \in SchedNames : SchedStopJob(name)
    \/ SchedStopAllJobs
    \/ \E name \in SchedNames : Fire(name)
    \/ \E name \in SchedNames, threw \in BOOLEAN : Complete(name, threw)

SchedInit == Init /\ env = "any"

SchedSpec == SchedInit /\ [][SchedNext]_vars

----------------------------------------------------------------------------
(* The scheduler with its one-time tasks: scheduleDelayedTask beside        *)
(* scheduleJob and stopAllJobs.                                              *)

\* the names the delayed tasks are given
DelayedNames == {"delayed-a", "delayed-b"}

\* the names of the recurring jobs beside them
RecurringNames == {"news-monitor", "keep-alive"}

\* scheduleDelayedTask(name, delayMs, callback): a setTimeout whose handle is
\* dropped; this.jobs is not touched.  One timer a name is followed
ScheduleDelayedTask(name) ==
    /\ name \notin timers
    /\ timers' = timers \cup {name}
    /\ probe' = [kind |-> "scheduleDelayedTask", name |-> name]
    /\ UNCHANGED <<jobs, orphans, active, dbVars, botVars, cycleVars, visited, failedSources,
                   lastScrape, acceptedOnce, acceptedTwice, cleanupRan, cbThrew, saveFailed>>

\* the delay has elapsed: the function given to setTimeout runs the callback
\* and catches what it throws
DelayElapses(name) ==
    /\ name \in timers
    /\ timers' = timers \ {name}
    /\ UNCHANGED <<jobs, orphans, active, notSched>>

DelayNext ==
    \/ \E name \in RecurringNames, cronTime \in CronTimes, startImmediately \in BOOLEAN :
          SchedScheduleJob(name, cronTime, startImmediately)
    \/ \E name \in DelayedNames : ScheduleDelayedTask(name)
    \/ SchedStopAllJobs
    \/ \E name \in RecurringNames : Fire(name)
    \/ \E name \in RecurringNames, threw \in BOOLEAN : Complete(name, threw)
    \/ \E name \in DelayedNames : DelayElapses(name)

DelaySpec == SchedInit /\ [][DelayNext]_vars

----------------------------------------------------------------------------
(* The functions of utils/keywords.ts alone: a text and a list of keywords  *)
(* are drawn, and one of the functions is applied to them.                   *)

MaxTextLen == 3

MaxKeywordLen == 2

MaxKeywords == 2

\* texts come in lower case and keywords with a capital, so that a match
\* needs the lowering of both
TextChars == {"a", "b", "_", "+", " "}

KeywordChars == {"a", "B", "_", "+", " "}

Texts == SeqsUpTo(TextChars, MaxTextLen)

\* keywords of a list: a word, a phrase of two words, a word with characters
\* special to regular expressions, a single letter
KeywordMenu == {<<"a", "B">>, <<"a", " ", "B">>, <<"a", "+">>, <<"B">>}

KeywordLists ==
    {<<k>> : k \in SeqsUpTo(KeywordChars, MaxKeywordLen)} \cup SeqsUpTo(KeywordMenu, MaxKeywords)

KeywordInputs ==
    {[kind |-> "input", text |-> t, keywords |-> ks, result |-> <<>>] :
        t \in Texts, ks \in KeywordLists}

\* findMatchingKeywords(text, keywords)
Match ==
    /\ probe.kind = "input"
    /\ probe' = [probe EXCEPT !.kind = "match",
                              !.result = findMatchingKeywords(probe.text, probe.keywords)]
    /\ UNCHANGED <<dbVars, schedVars, botVars, cycleVars, visited, failedSources, lastScrape,
                   acceptedOnce, acceptedTwice, cleanupRan, cbThrew, saveFailed>>

\* validateKeywords(keywords)
Validate ==
    /\ probe.kind = "input"
    /\ probe' = [probe EXCEPT !.kind = "validate",
                              !.result = validateKeywords(probe.keywords)]
    /\ UNCHANGED <<dbVars, schedVars, botVars, cycleVars, visited, failedSources, lastScrape,
                   acceptedOnce, acceptedTwice, cleanupRan, cbThrew, saveFailed>>

KeywordNext == Match \/ Validate

KeywordInit ==
    /\ Constructed
    /\ env = "any"
    /\ lastScrape = NoScrape
    /\ probe \in KeywordInputs

KeywordSpec == KeywordInit /\ [][KeywordNext]_vars

----------------------------------------------------------------------------
(* scrapeNews alone: an adapter and the answers of its feed urls and of its *)
(* listing page are drawn, and scrapeNews is applied to them.               *)

MaxItems == 2

Adapters == AllSources \cup {Kompas}

\* a fresh item, one that is 30 hours old, one without a title
ItemMenu == {Item(TitleHit, "u1", 0), Item(TitleHit, "u2", 30), Item(<<>>, "u1", 0)}

\* a fresh element, one that is 50 hours old, one with a title too short
ElementMenu ==
    {Element(TitleHit, "e1", 0), Element(TitleHit, "e2", 50), Element(<<"a", "b">>, "e1", 0)}

FeedAnswers == {FeedDown} \cup {Feed(items) : items \in SeqsUpTo(ItemMenu, MaxItems)}

PageAnswers == {PageDown} \cup {Page(elements) : elements \in SeqsUpTo(ElementMenu, MaxItems)}

\* one answer for each feed url of the adapter
FeedsOf(src) ==
    IF src = Detik
    THEN {<<f1, f2>> : f1 \in FeedAnswers,
                       f2 \in {FeedDown, Feed(<<>>), Feed(<<Item(TitleHit, "u2", 0)>>)}}
    ELSE {<<f>> : f \in FeedAnswers}

ScrapeInputs ==
    UNION {{[kind |-> "input", source |-> src, feeds |-> feeds, page |-> page] :
               feeds \in FeedsOf(src), page \in PageAnswers} :
           src \in Adapters}

\* scrapeNews() of the adapter; html is what its scrapeViaHTML makes of the
\* listing page
ScrapeNews ==
    /\ lastScrape.kind = "input"
    /\ lastScrape' = [kind |-> "result", source |-> lastScrape.source,
                      feeds |-> lastScrape.feeds, page |-> lastScrape.page,
                      rss |-> scrapeViaRSS(lastScrape.source, lastScrape.feeds),
                      html |-> scrapeViaHTML(lastScrape.source, lastScrape.page),
                      result |-> scrapeNews(lastScrape.source, lastScrape.feeds,
                                            lastScrape.page)]
    /\ UNCHANGED <<dbVars, schedVars, botVars, cycleVars, visited, failedSources,
                   acceptedOnce, acceptedTwice, cleanupRan, cbThrew, probe, saveFailed>>

ScrapeNext == ScrapeNews

ScrapeInit ==
    /\ Constructed
    /\ env = "any"
    /\ lastScrape \in ScrapeInputs
    /\ probe = NoProbe

ScrapeSpec == ScrapeInit /\ [][ScrapeNext]_vars

----------------------------------------------------------------------------
(* A job scheduled by a number of minutes, and the minutes of the day going *)
(* by: the job fires at the minutes its cron expression names.              *)

\* the numbers of minutes scheduleJob is given
IntervalMinutes == {-1, 0, 1, 5, 7, 60, 120, 300}

\* the minute of the day at which the job is scheduled
StartClocks == {0, 17}

TimerInputs == {[kind |-> "minutes", minutes |-> n] : n \in IntervalMinutes}

\* scheduleJob("news-monitor", minutes, callback)
ScheduleInterval ==
    /\ probe.kind = "minutes"
    /\ \E clock \in StartClocks :
          LET scheduled == scheduleJob(jobs, "news-monitor", Minutes(probe.minutes), "task", TRUE)
          IN  /\ jobs' = scheduled.jobs
              /\ orphans' = orphans \cup scheduled.orphans
              /\ probe' = IF scheduled.threw
                          THEN [kind |-> "rejected", minutes |-> probe.minutes]
                          ELSE [kind |-> "timer", minutes |-> probe.minutes,
                                cron |-> minutesToCron(probe.minutes), clock |-> clock,
                                fired |-> FALSE, sinceFire |-> 0, gap |-> 0]
    /\ UNCHANGED <<timers, dbVars, active, botVars, cycleVars, visited, failedSources, lastScrape,
                   acceptedOnce, acceptedTwice, cleanupRan, cbThrew, saveFailed>>

\* the next minute begins: the job fires if its expression names the minute.
\* sinceFire counts the minutes since the last fire, gap is the time
\* between the last two fires
MinutePasses ==
    /\ probe.kind = "timer"
    /\ Registered(jobs, "news-monitor") /\ jobs["news-monitor"].running
    /\ LET clock == (probe.clock + 1) % DayMinutes
           fires == Fires(probe.cron, clock)
       IN  probe' = [probe EXCEPT !.clock = clock,
                                  !.fired = probe.fired \/ fires,
                                  !.sinceFire = IF fires THEN 0 ELSE probe.sinceFire + 1,
                                  !.gap = IF fires /\ probe.fired THEN probe.sinceFire + 1
                                          ELSE probe.gap]
    /\ UNCHANGED <<dbVars, schedVars, botVars, cycleVars, visited, failedSources, lastScrape,
                   acceptedOnce, acceptedTwice, cleanupRan, cbThrew, saveFailed>>

TimerNext == ScheduleInterval \/ MinutePasses

TimerInit ==
    /\ Constructed
    /\ env = "any"
    /\ lastScrape = NoScrape
    /\ probe \in TimerInputs

TimerSpec == TimerInit /\ [][TimerNext]_vars

----------------------------------------------------------------------------
(* DiscordService alone: the clock goes on, in seconds, and sendArticle is  *)
(* called with the webhook answering as it likes.  rl is this.rateLimiter.  *)

MaxNow == 8

\* the value Date.now() has when the service is made, far from 0
StartNow == 2

\* isRateLimited(): less than minInterval since the last message accepted
MinIntervalSeconds == 2

\* handleRateLimit(): the delay when retry_after is absent
DefaultRetrySeconds == 60

\* what the webhook answers: a status and, with 429, retry_after (0 for a
\* body without it)
Responses ==
    {[status |-> 204, retryAfter |-> 0], [status |-> 200, retryAfter |-> 0],
     [status |-> 500, retryAfter |-> 0], [status |-> 429, retryAfter |-> 0],
     [status |-> 429, retryAfter |-> 1], [status |-> 429, retryAfter |-> 3]}

\* isRateLimited(): this.rateLimiter.get("last_sent") || 0 is compared with
\* the clock; "rate_limited_until" is not read
isRateLimited(rl, now) == now - rl.lastSent < MinIntervalSeconds

\* updateRateLimit()
updateRateLimit(rl, now) == [rl EXCEPT !.lastSent = now]

\* handleRateLimit(retryAfter)
handleRateLimit(rl, now, retryAfter) ==
    [rl EXCEPT !.rateLimitedUntil =
                   now + (IF retryAfter # 0 THEN retryAfter ELSE DefaultRetrySeconds)]

\* sendArticle(article) at time now with the webhook answering response: the
\* rateLimiter after the call, whether a request was made, the value returned
sendArticleAt(rl, now, response) ==
    IF isRateLimited(rl, now) THEN [rl |-> rl, requested |-> FALSE, ret |-> FALSE]
    ELSE IF response.status = 204
    THEN [rl |-> updateRateLimit(rl, now), requested |-> TRUE, ret |-> TRUE]
    ELSE IF response.status = 429
    THEN [rl |-> handleRateLimit(rl, now, response.retryAfter), requested |-> TRUE,
          ret |-> FALSE]
    ELSE [rl |-> rl, requested |-> TRUE, ret |-> FALSE]

NoCall == [made |-> FALSE, limited |-> FALSE, requested |-> FALSE, ret |-> FALSE]

\* sendArticle is called; limited tells whether a 429 answered before and
\* its retry_after has not elapsed
CallSendArticle ==
    /\ probe.kind = "discord"
    /\ \E response \in Responses :
          LET sent == sendArticleAt(probe.rl, probe.now, response)
          IN  probe' = [probe EXCEPT !.rl = sent.rl,
                                     !.call = [made |-> TRUE,
                                               limited |-> probe.now < probe.rl.rateLimitedUntil,
                                               requested |-> sent.requested,
                                               ret |-> sent.ret]]
    /\ UNCHANGED <<dbVars, schedVars, botVars, cycleVars, visited, failedSources, lastScrape,
                   acceptedOnce, acceptedTwice, cleanupRan, cbThrew, saveFailed>>

\* a second goes by
SecondPasses ==
    /\ probe.kind = "discord"
    /\ probe.now < MaxNow
    /\ probe' = [probe EXCEPT !.now = probe.now + 1, !.call = NoCall]
    /\ UNCHANGED <<dbVars, schedVars, botVars, cycleVars, visited, failedSources, lastScrape,
                   acceptedOnce, acceptedTwice, cleanupRan, cbThrew, saveFailed>>

DiscordNext == CallSendArticle \/ SecondPasses

DiscordInit ==
    /\ Constructed
    /\ env = "any"
    /\ lastScrape = NoScrape
    /\ probe = [kind |-> "discord", now |-> StartNow,
                rl |-> [lastSent |-> 0, rateLimitedUntil |-> 0], call |-> NoCall]

DiscordSpec == DiscordInit /\ [][DiscordNext]_vars

----------------------------------------------------------------------------
(* Claims about the store *)

\* C9: a single saveArticle call re-initializes the store at most once and
\* makes at most two write attempts, however long the corruption persists.
C9_RecoveryIsOneShot ==
    lastSave.kind = "save" => (lastSave.reinits <= 1 /\ lastSave.writes <= 2)

\* two saveArticle calls in a row for the same url, the first of which
\* returned an id
SavedTwice ==
    /\ lastSave.kind = "save"
    /\ prevSave.kind = "save"
    /\ lastSave.url = prevSave.url
    /\ prevSave.ret # 0

SavedOk(s, u) == s.kind = "save" /\ s.url = u /\ ~s.threw /\ s.ret # 0

\* C11: on an open store isArticleProcessed(u) is true right after a
\* saveArticle call for u that returned an id; once true it stays true over
\* every further call and over the passing of time, a cleanup call that
\* deletes rows excepted; and it becomes true for u only by a saveArticle call
\* for u that returned an id, so it is false for a url that was never saved.
C11_ProcessedUntilCleanup ==
    /\ [](\A u \in StoreUrls :
            (SavedOk(lastSave, u) /\ dbOpen) => isArticleProcessed(DbState, u).ret)
    /\ [][\A u \in StoreUrls :
            (HasUrl(rows, u) /\ \A d \in CleanupDays : rows' # cleanup(rows, d))
                => /\ HasUrl(rows', u)
                   /\ dbOpen' => isArticleProcessed(DbState', u).ret]_vars
    /\ [][\A u \in StoreUrls \cup {""} :
            (~HasUrl(rows, u) /\ HasUrl(rows', u)) => SavedOk(lastSave', u)]_vars
    /\ [](\A u \in StoreUrls \cup {""} :
            (dbOpen /\ ~HasUrl(rows, u)) => ~isArticleProcessed(DbState, u).ret)

\* "u1" was saved, time passed, "u2" was saved, and "u1" is still reported
\* as processed while "" never was
C11_Witness ==
    /\ prevSave.kind = "save" /\ prevSave.url = "u1" /\ prevSave.ret # 0
    /\ SavedOk(lastSave, "u2")
    /\ \E r \in rows : r.url = "u1" /\ r.age > 0
    /\ isArticleProcessed(DbState, "u1") = [threw |-> FALSE, ret |-> TRUE]
    /\ isArticleProcessed(DbState, "") = [threw |-> FALSE, ret |-> FALSE]

\* the list res holds a record of the given url, title and source
Includes(res, url, title, source) ==
    \E i \in DOMAIN res :
        res[i].url = url /\ res[i].title = title /\ res[i].source = source

\* C12 as stated: after a saveArticle call that returned an id, every list
\* getRecentArticles() may return holds a record with the url, title and
\* source of the record given to the call.
C12_RoundTripExact ==
    (dbOpen /\ SavedOk(lastSave, lastSave.url)) =>
        \A res \in getRecentArticles(DbState, "", DefaultLimit).ret :
            Includes(res, lastSave.url, lastSave.title, lastSave.source)

\* C12 as amended: a saveArticle call for a url that has no row and that
\* returned an id is followed by a getRecentArticles() that holds a record
\* with the url and source given and the title given with its control
\* characters removed and then trimmed; a call for a url that has a row
\* leaves getRecentArticles() holding the row that was there.
C12_RoundTripSanitized ==
    [][\A u \in StoreUrls :
         (dbOpen' /\ SavedOk(lastSave', u)) =>
            \A res \in getRecentArticles(DbState', "", DefaultLimit).ret :
                IF HasUrl(rows, u)
                THEN \E r \in RowsOf(rows, u) : Includes(res, u, r.title, r.source)
                ELSE Includes(res, u, Trim(SelectSeq(lastSave'.title, NotControl)),
                              lastSave'.source)]_vars

\* a record whose title has a control character was stored next to another
\* one and getRecentArticles() gives it back with the title sanitized
C12_Witness ==
    /\ dbOpen
    /\ SavedOk(lastSave, "u2")
    /\ lastSave.title = <<"b", "^A">>
    /\ Cardinality(rows) = 2
    /\ \A res \in getRecentArticles(DbState, "", DefaultLimit).ret :
          Len(res) = 2 /\ Includes(res, "u2", <<"b">>, lastSave.source)

\* C13: a cleanup(d) call removes the rows written more than d days before
\* the call and no other, leaves the rows that stay as they were, and returns
\* the number of rows it removed.
C13_CleanupExact ==
    lastSave.kind = "cleanup" =>
        /\ lastSave.before \ lastSave.after = {r \in lastSave.before : r.age > lastSave.days}
        /\ lastSave.after = {r \in lastSave.before : ~(r.age > lastSave.days)}
        /\ lastSave.ret = Cardinality({r \in lastSave.before : r.age > lastSave.days})

\* a cleanup call met a row older than d days, which it removed, and a row
\* written exactly d days before, which it left, and returned 1
C13_Witness ==
    /\ lastSave.kind = "cleanup"
    /\ lastSave.ret = 1
    /\ \E r \in lastSave.before : r.age > lastSave.days /\ r \notin lastSave.after
    /\ \E r \in lastSave.before : r.age = lastSave.days /\ r \in lastSave.after

----------------------------------------------------------------------------
(* Claims about the monitoring cycle *)

\* C1: saveArticle is called for an article of a cycle only if sendArticle
\* returned success for it in that cycle: the calls made so far in the loop
\* that saves never outnumber the articles sent.
C1_SaveOnlyAfterSend == mpc = "save" => saveIdx <= sentCount

\* C2: while no cleanup has run and every saveArticle call has succeeded, the
\* webhook has accepted at most one notification per url.
C2_AtMostOneAccepted == (~cleanupRan /\ ~saveFailed) => acceptedTwice = {}

\* the article of url u has matched a keyword and was not found in the store
Pending(u) == \E i \in DOMAIN allArticles : allArticles[i].url = u

\* C3: in the steady world (every cycle every source returns the same stubs,
\* the webhook accepts every message) every article that matched a keyword
\* and was not in the store is sent successfully in the end.
C3_EventuallySent ==
    \A u \in Urls : (env = "steady" /\ Pending(u)) ~> (u \in acceptedOnce)

\* C4: no job has two invocations of its callback in progress at once.
C4_NoOverlap == \A name \in JobNames : active[name] <= 1

\* C5: once start() has returned, "news-monitor" is registered and
\* getJobsStatus reports it running.
C5_MonitorRunning ==
    pc = "running" =>
        /\ Registered(jobs, "news-monitor")
        /\ getJobsStatus(jobs)["news-monitor"]

\* executions of monitorNews in progress: the one start() awaits and those
\* the fires of "news-monitor" began
MonitorActive ==
    active["news-monitor"] + (IF mpc # "idle" /\ owner = "start" THEN 1 ELSE 0)

\* C6: at most one execution of monitorNews is in progress at any time.
C6_OneMonitorAtATime == MonitorActive <= 1

\* the initial run is in progress while "news-monitor" is registered
C6_Witness == MonitorActive = 1 /\ Registered(jobs, "news-monitor") /\ mpc = "send"

\* C7: when scrapeViaRSS throws or returns no article, scrapeNews has called
\* scrapeViaHTML before it returns.
C7_FallbackAfterRssFailure ==
    (lastScrape.kind = "scrape" /\ (lastScrape.rssThrew \/ lastScrape.rssCount = 0))
        => lastScrape.htmlCalled

IsPrefix(short, long) ==
    Len(short) <= Len(long) /\ SubSeq(long, 1, Len(short)) = short

\* C8: the loop over the sources is left only when every source has been
\* visited, and no turn of it takes an article off allArticles.
C8_FailingSourceIsSkipped ==
    /\ [](mpc = "cap" => visited = AllSources)
    /\ [][(mpc = "scrape" /\ mpc' \in {"scrape", "cap"}) => IsPrefix(allArticles, allArticles')]_vars

\* the first source gave an article, the second failed, and the loop is
\* through with the article of the first still on the list
C8_Witness ==
    /\ mpc = "cap"
    /\ Scrapers[2] \in failedSources
    /\ visited = AllSources
    /\ \E i \in DOMAIN allArticles : allArticles[i].source = Scrapers[1]

Min(a, b) == IF a < b THEN a ELSE b

NoneStored(list) == \A i \in DOMAIN list : ~HasUrl(rows, list[i].url)

\* C16: an article whose url has a row in the store is not pushed on
\* allArticles and is not handed to sendBulkArticles: the articles a cycle has
\* accumulated, and those it is sending, have no row; so a cycle that finds
\* every url of the steady world stored accumulates nothing.
C16_StoredNeverAgain ==
    /\ [][\A i \in DOMAIN allArticles' :
            i > Len(allArticles) => ~HasUrl(rows, allArticles'[i].url)]_vars
    /\ [](mpc \in {"scrape", "cap"} => NoneStored(allArticles))
    /\ [](mpc = "send" => NoneStored(articlesToProcess))
    /\ []((mpc = "cap" /\ \A u \in Urls : HasUrl(rows, u)) => allArticles = <<>>)

\* a cycle of the steady world has gone through the three sources with the
\* six urls stored by an earlier cycle, and has accumulated nothing
C16_Witness ==
    /\ env = "steady"
    /\ mpc = "cap"
    /\ visited = AllSources
    /\ failedSources = {}
    /\ \A u \in Urls : HasUrl(rows, u)
    /\ allArticles = <<>>

----------------------------------------------------------------------------
(* Claims about the scheduler *)

\* C17: when scheduleJob is called with a name that has a job, the job that
\* was there is stopped: under no name does a CronJob fire other than the one
\* this.jobs holds, so no two CronJobs of one name are running and every
\* invocation that starts is one of the callback registered last.
C17_ReplacedJobIsStopped ==
    /\ [](\A name \in JobNames :
            /\ Firing(jobs, orphans, name) \subseteq RunningJob(jobs, name)
            /\ Cardinality(Firing(jobs, orphans, name)) <= 1)
    /\ [][\A name \in JobNames :
            active'[name] > active[name] => CanFire(jobs, active, name)]_vars

\* a running job was replaced by a running job with another callback, which
\* has been invoked while a second invocation is in progress
C17_Witness ==
    /\ Registered(jobs, "keep-alive")
    /\ jobs["keep-alive"].cb = "task2"
    /\ jobs["keep-alive"].running
    /\ active["keep-alive"] = 2
    /\ orphans = {}

\* C18: a callback that throws or rejects does not stop its job: the end of
\* an invocation, thrown or not, leaves this.jobs as it was, so a job that
\* was running goes on firing.
C18_ThrowDoesNotStop ==
    [][\A name \in JobNames :
         active'[name] < active[name] =>
            /\ jobs' = jobs
            /\ CanFire(jobs, active, name) => CanFire(jobs', active', name)]_vars

\* a callback has thrown, its job is still registered and running and an
\* invocation of it is in progress
C18_Witness ==
    /\ cbThrew
    /\ Registered(jobs, "status-logger")
    /\ jobs["status-logger"].running
    /\ active = [n \in JobNames |-> IF n = "status-logger" THEN 1 ELSE 0]
    /\ \A n \in JobNames \ {"status-logger"} : ~Registered(jobs, n)

\* C19: a job that stopJob or stopAllJobs has taken out of this.jobs starts
\* no invocation from then on: under a name without a job no CronJob fires
\* and no invocation starts, getNextRunTime gives null and getJobsStatus
\* does not list the name; stopJob returns true for a name with a job, and
\* for a name without one it returns false and changes nothing.
C19_StoppedIsTerminal ==
    /\ [](\A name \in JobNames :
            IF Registered(jobs, name)
            THEN /\ stopJob(jobs, name).ret
                 /\ ~Registered(stopJob(jobs, name).jobs, name)
                 /\ ~Registered(stopAllJobs(jobs).jobs, name)
            ELSE /\ Firing(jobs, orphans, name) = {}
                 /\ getNextRunTime(jobs, name) = "null"
                 /\ name \notin DOMAIN getJobsStatus(jobs)
                 /\ stopJob(jobs, name) = [jobs |-> jobs, ret |-> FALSE, orphans |-> {}])
    /\ [][\A name \in JobNames :
            /\ active'[name] > active[name] => Registered(jobs, name)
            /\ (Registered(jobs, name) /\ ~Registered(jobs', name))
                  => Firing(jobs', orphans', name) = {}]_vars

\* a running job was stopped while an invocation of its callback was in
\* progress: the invocation goes on, the name has no job and nothing fires
C19_Witness ==
    /\ ~Registered(jobs, "keep-alive")
    /\ active["keep-alive"] = 1
    /\ Registered(jobs, "status-logger")
    /\ Firing(jobs, orphans, "keep-alive") = {}
    /\ getNextRunTime(jobs, "keep-alive") = "null"

\* C36: a scheduleJob call that throws (an interval below 1 minute, a cron
\* expression the CronJob constructor refuses) leaves the scheduler as it
\* was: the job registered under the name stays registered and running with
\* its callback, and no job is added.
C36_FailedScheduleChangesNothing ==
    [][(probe' # probe /\ probe'.kind = "scheduleJob" /\ probe'.threw) =>
          (jobs' = jobs /\ orphans' = orphans /\ active' = active)]_vars

\* the call threw for a name whose job is registered and running
C36_Witness ==
    /\ probe.kind = "scheduleJob"
    /\ probe.threw
    /\ Registered(jobs, probe.name)
    /\ jobs[probe.name].running
    /\ jobs[probe.name].cb = "task2"

\* C37: once stopAllJobs() has returned, and until something is scheduled
\* again, no callback given to the scheduler starts: no job of scheduleJob
\* fires and no timer of scheduleDelayedTask runs its callback.
C37_NothingStartsAfterStopAll ==
    [][(probe.kind = "stopAllJobs" /\ probe'.kind = "stopAllJobs") =>
          /\ \A n \in JobNames : active'[n] <= active[n]
          /\ timers \subseteq timers']_vars

----------------------------------------------------------------------------
(* Claims about the shutdown *)

\* where start() stands once database.initialize() has returned
StoreInitialized == {"test", "schedule", "monitor", "finish", "running"}

NothingFires == \A name \in JobNames : Firing(jobs, orphans, name) = {}

C22_AbortsWhenUnreachable ==
    /\ [](pc = "unreachable" =>
            (jobs = <<>> /\ active = NoJobs /\ mpc = "idle" /\ ~isRunning))
    /\ [][(pc = "unreachable" /\ pc' # pc) =>
            /\ pc' = "exiting" /\ exitCode' = 1
            /\ jobs' = <<>> /\ active' = NoJobs /\ mpc' = "idle"
            /\ rows' = rows /\ acceptedOnce' = acceptedOnce]_vars
    /\ []((pc = "exiting" /\ exitCode = 1) => (mpc = "idle" /\ active = NoJobs))

\* testConnection() has returned false in a process started over a store
\* that holds a row: no job is registered, no cycle has begun
C22_Witness ==
    /\ pc = "unreachable"
    /\ dbOpen
    /\ rows # {}
    /\ jobs = <<>>
    /\ mpc = "idle"

----------------------------------------------------------------------------
(* Claims about the loop that saves *)

MatchedConfigured(a) ==
    /\ a.matchedKeywords # <<>>
    /\ \A i \in 1..Len(a.matchedKeywords) :
          \E k \in 1..Len(Keywords) : a.matchedKeywords[i] = Keywords[k]

\* C29: every article a cycle has accumulated, every article handed to
\* sendBulkArticles and every article written to the store has a non-empty
\* matchedKeywords, all of them keywords of the configuration.
C29_MatchedKeywordsConfigured ==
    /\ \A i \in 1..Len(allArticles) : MatchedConfigured(allArticles[i])
    /\ \A i \in 1..Len(articlesToProcess) : MatchedConfigured(articlesToProcess[i])
    /\ \A r \in rows : MatchedConfigured(r)

\* a cycle that met an item no keyword matches is saving what it found
C29_Witness ==
    /\ mpc = "save"
    /\ articlesToProcess # <<>>
    /\ rows # {}
    /\ sentCount > 0
    /\ acceptedOnce # {}

----------------------------------------------------------------------------
(* Claims about the keywords *)

AlphaNumeric == WordChars \ {"_"}

\* the character of t at position p is not alphanumeric, or p is beyond an
\* end of t
EdgeOrNonAlphaNumeric(t, p) == p < 1 \/ p > Len(t) \/ t[p] \notin AlphaNumeric

\* k occurs in t, letter case ignored, with no alphanumeric character next
\* to the occurrence
OccursDelimited(t, k) ==
    \E p \in 1..Len(t) :
        /\ p + Len(k) - 1 <= Len(t)
        /\ ToLower(SubSeq(t, p, p + Len(k) - 1)) = ToLower(k)
        /\ EdgeOrNonAlphaNumeric(t, p - 1)
        /\ EdgeOrNonAlphaNumeric(t, p + Len(k))

\* C23: for a text T and a keyword K of two characters or more,
\* findMatchingKeywords(T, [K]) contains K exactly when K occurs in T, letter
\* case ignored, with a non-alphanumeric character or an end of T on each
\* side of the occurrence; a keyword with characters special to regular
\* expressions is matched literally by the same rule.
C23_WholeWordRule ==
    (probe.kind = "match" /\ Len(probe.keywords) = 1 /\ Len(probe.keywords[1]) >= 2) =>
        ((probe.result = probe.keywords) <=> OccursDelimited(probe.text, probe.keywords[1]))
\* s is t with some of its elements left out
RECURSIVE IsSubsequence(_, _)
IsSubsequence(s, t) ==
    IF s = <<>> THEN TRUE
    ELSE IF t = <<>> THEN FALSE
    ELSE IF Head(s) = Head(t) THEN IsSubsequence(Tail(s), Tail(t))
    ELSE IsSubsequence(s, Tail(t))

Occurrences(s, x) == Cardinality({i \in 1..Len(s) : s[i] = x})

\* C24: the result of findMatchingKeywords is a subsequence of the keyword
\* list (the matched keywords in the order and the spelling of the input), a
\* keyword is in it no more often than in the input, and it is empty when the
\* text or the keyword list is empty.
C24_ResultIsSubsequence ==
    probe.kind = "match" =>
        /\ IsSubsequence(probe.result, probe.keywords)
        /\ \A i \in 1..Len(probe.result) :
              Occurrences(probe.result, probe.result[i]) <= Occurrences(probe.keywords, probe.result[i])
        /\ (probe.text = <<>> \/ probe.keywords = <<>>) => probe.result = <<>>

\* a keyword given twice in capitals is matched twice in a text in lower case
C24_Witness ==
    /\ probe.kind = "match"
    /\ probe.text = <<"a", "b">>
    /\ probe.keywords = << <<"a", "B">>, <<"a", "B">> >>
    /\ probe.result = probe.keywords

\* the keywords of ks that are shorter than two characters once trimmed
TooShort(ks) == {i \in 1..Len(ks) : Len(Trim(ks[i])) < 2}

\* C25: validateKeywords returns an error for every keyword that is empty
\* after trimming and for every keyword of trimmed length 1, and no error for
\* a keyword of trimmed length 2 or more, phrases with spaces and keywords
\* with characters special to regular expressions included.
C25_ErrorsAreShortKeywords ==
    probe.kind = "validate" =>
        /\ Len(probe.result) = Cardinality(TooShort(probe.keywords))
        /\ \A i \in TooShort(probe.keywords) :
              \E j \in 1..Len(probe.result) : probe.result[j].keyword = Trim(probe.keywords[i])
        /\ \A j \in 1..Len(probe.result) : Len(probe.result[j].keyword) < 2

\* a single letter is reported; the phrase and the keyword with a plus sign
\* next to it are not
C25_Witness ==
    /\ probe.kind = "validate"
    /\ probe.keywords = << <<"a", " ", "B">>, <<"B">> >>
    /\ Len(probe.result) = 1
    /\ probe.result[1].keyword = <<"B">>

----------------------------------------------------------------------------
(* Claims about the adapters *)

\* C26: whatever the feed urls and the listing page of an adapter answer,
\* the result of scrapeNews has success = true exactly when its articles are
\* not empty, and a result with an error has no articles.
C26_SuccessIffArticles ==
    lastScrape.kind = "result" =>
        /\ lastScrape.result.success <=> (lastScrape.result.articles # <<>>)
        /\ lastScrape.result.errors > 0 => lastScrape.result.articles = <<>>

\* the feed parsed and gave nothing usable, the listing page was read and
\* gave nothing either: no error, no articles, no success
C26_Witness ==
    /\ lastScrape.kind = "result"
    /\ ~lastScrape.rss.threw
    /\ lastScrape.result.htmlCalled
    /\ lastScrape.page.elements # <<>>
    /\ lastScrape.result.errors = 0
    /\ ~lastScrape.result.success

\* C27: when the feed of an adapter yields a usable item, scrapeNews returns
\* the feed's articles only and does not request the listing page.
C27_FeedItemsOnly ==
    (lastScrape.kind = "result" /\ ~lastScrape.rss.threw /\ lastScrape.rss.articles # <<>>) =>
        /\ ~lastScrape.result.htmlCalled
        /\ lastScrape.result.articles = lastScrape.rss.articles
        /\ \A i \in 1..Len(lastScrape.result.articles) :
              \E f \in 1..Len(lastScrape.feeds) :
                  \E j \in 1..Len(lastScrape.feeds[f].items) :
                      lastScrape.feeds[f].items[j].link = lastScrape.result.articles[i].url

\* Kompas: the feed gave an item while the listing page has an element that
\* would pass
C27_Witness ==
    /\ lastScrape.kind = "result"
    /\ lastScrape.source = Kompas
    /\ lastScrape.rss.articles # <<>>
    /\ lastScrape.page = Page(<<Element(TitleHit, "e1", 0)>>)
    /\ lastScrape.result.success

----------------------------------------------------------------------------
(* Claims about the interval *)

\* C30: a job scheduled by a number n of minutes fires every n minutes, any
\* two consecutive fires exactly n minutes apart; a number below 1 is
\* rejected with an error and no job is registered.
C30_FiresEveryNMinutes ==
    /\ probe.kind = "timer" =>
          /\ probe.minutes >= 1
          /\ probe.gap # 0 => probe.gap = probe.minutes
    /\ probe.kind = "rejected" => (probe.minutes < 1 /\ jobs = <<>>)

----------------------------------------------------------------------------
(* Claims about the webhook *)

\* C34: sendBulkArticles sends in the order of the list and stops at the
\* first send that fails: a send is for the article after the ones sent, a
\* send that fails ends the call, what it returns is the number of articles
\* sent, the first of the list, and no send is made past maxPerBatch.
C34_SendsPrefixInOrder ==
    /\ [](mpc = "send" => sentCount < Min(Len(articlesToProcess), MaxPerBatch))
    /\ [](mpc = "save" => sentCount <= Min(Len(articlesToProcess), MaxPerBatch))
    /\ [][(mpc = "send" /\ mpc' \in {"send", "save"}) =>
            /\ sentCount' \in {sentCount, sentCount + 1}
            /\ sentCount' = sentCount + 1 =>
                  acceptedOnce' = acceptedOnce \cup {articlesToProcess[sentCount + 1].url}
            /\ sentCount' = sentCount => acceptedOnce' = acceptedOnce
            /\ articlesToProcess' = articlesToProcess]_vars
    /\ [][(mpc = "save" /\ mpc' = "save") =>
            (sentCount' = sentCount /\ acceptedOnce' = acceptedOnce)]_vars

\* the second send of a list of three has failed: one article was sent, and
\* sendBulkArticles has returned 1 with the third never tried
C34_Witness ==
    /\ mpc = "save"
    /\ Len(articlesToProcess) = 3
    /\ sentCount = 1
    /\ articlesToProcess[1].url \in acceptedOnce
    /\ articlesToProcess[3].url \notin acceptedOnce

\* C31: after a 429 answer with retry_after = r, every sendArticle call made
\* before r seconds have gone by (60 when r is absent) returns false and
\* makes no request to the webhook.
C31_NoRequestWhileLimited ==
    (probe.kind = "discord" /\ probe.call.made /\ probe.call.limited) =>
        (~probe.call.requested /\ ~probe.call.ret)

----------------------------------------------------------------------------
(* Claims about the accumulated list *)

\* the urls of the first n articles of the list
UrlsOfFirst(list, n) == {list[i].url : i \in 1..Min(n, Len(list))}

\* C35: an article at a position of the accumulated list beyond
\* maxArticlesPerCheck is not sent and not saved in that cycle, and the store
\* has no row for its url while the cycle sends and saves.
C35_DroppedAreLeftAlone ==
    mpc \in {"send", "save"} =>
        \A i \in 1..Len(allArticles) :
            i > maxArticlesPerCheck =>
                /\ allArticles[i].url \notin UrlsOfFirst(articlesToProcess, sentCount)
                /\ allArticles[i].url \notin UrlsOfFirst(articlesToProcess, saveIdx)
                /\ ~HasUrl(rows, allArticles[i].url)

\* C32: within a cycle the list of matched articles never holds two entries
\* with the same url, whatever the adapters return.
C32_NoUrlTwice ==
    \A i, j \in 1..Len(allArticles) : i # j => allArticles[i].url # allArticles[j].url

\* C33: no stub that the extraction from the listing page of an adapter
\* returns is older than 48 hours at the time of the fetch.
C33_ListingStubsAreFresh ==
    lastScrape.kind = "result" =>
        \A i \in 1..Len(lastScrape.html.articles) :
            lastScrape.html.articles[i].age <= MaxAgeHours

====
